---------------------------- MODULE Spec2Model ----------------------------
(***************************************************************************)
(* A model of dtqueue's storage engine (src/src/storage.rs): the Storage   *)
(* trait with its two backends, SqliteStorage (durable, one table per      *)
(* queue, soft delete) and InMemoryStorage (one BTreeMap per queue behind  *)
(* one RwLock), together with the queue-name validator of utils.rs.        *)
(*                                                                         *)
(* Values.  A DateTime<Utc> is a record [millis, nanos]: the whole         *)
(* milliseconds since the epoch and the remainder below one millisecond.   *)
(* Option<T> is a sequence of length 0 (None) or 1 (Some).  A String that  *)
(* names a queue is a sequence of characters, a message is a TLA+ string.  *)
(***************************************************************************)
EXTENDS Integers, Sequences, FiniteSets, TLC

VARIABLES
    backend,      \* "sqlite" | "memory": the variant chosen at startup
    config,       \* AppConfig.queues, the names the backend was built from
    queues,       \* SqliteStorage.queues / InMemoryStorage.allowed_queues
    sqls,         \* SqliteStorage.{get,put,delete}_item_sqls
    db,           \* the SQLite database: table identifier -> set of rows
    mem,          \* InMemoryStorage.queues: name -> BTreeMap (key -> message)
    last,         \* the last completed call: [op, queue, item, result]
    hist,         \* the calls of a scenario, in order, with their results
    phase,        \* "seq": one caller at a time; "conc": concurrent callers
    pc,           \* per thread: position inside its call
    call,         \* per thread: [op, queue, item] of the call it runs
    sel,          \* per thread: the key selected inside the critical step
    ret,          \* per thread: the value its call returned
    lock,         \* holders of the exclusive resource (RwLock write guard /
                  \* SQLite write transaction)
    pool,         \* threads holding a pooled connection
    atSpawn       \* [queue, items, callers] at the moment the callers started

vars == <<backend, config, queues, sqls, db, mem, last, hist, phase, pc, call, sel, ret,
          lock, pool, atSpawn>>

storeVars == <<db, mem>>
setupVars == <<backend, config, queues, sqls>>
threadVars == <<pc, call, sel, ret, lock, pool, atSpawn>>

-----------------------------------------------------------------------------
(* Bounds and sample inputs *)

\* most rows (tombstones included) / map entries held by all queues together
MaxStored == 2
\* most puts of a scenario
MaxPuts == 2
\* number of concurrent callers
NThreads == 3

\* i64::MIN, the sentinel of an absent secondary timestamp.  The checker's
\* integers are 32 bits wide, so the sentinel is the least value they hold;
\* as in the program, every millisecond value of a DateTime lies above it.
I64_MIN == -2147483647

\* r2d2's default max_size of the pool built by Pool::new
PoolSize == 10

None == <<>>
Some(x) == <<x>>

DT(m, n) == [millis |-> m, nanos |-> n]

\* sample timestamps: two in the same millisecond, one in the next
Times == {DT(0, 0), DT(0, 1), DT(1, 0)}
SecondaryTimes == {None, Some(DT(0, 1))}
Messages == {"", "x"}

QueueItems ==
    [datetime : Times, datetime_secondary : SecondaryTimes, message : Messages]

\* the items of the ordering scenarios: two present secondaries in distinct
\* milliseconds besides the absent one
OrderSecondaryTimes == {None, Some(DT(0, 1)), Some(DT(1, 0))}
OrderItems ==
    [datetime : Times, datetime_secondary : OrderSecondaryTimes,
     message : Messages]

\* queue names
qa == <<"a">>
qb == <<"b">>
qA == <<"A">>
Names == {qa, qb, qA}

\* config.queues of the sample configurations: in each, one name of Names is
\* not a queue
Configs == {<<qa, qb>>, <<qa, qA>>}

Backends == {"sqlite", "memory"}
Threads == 1..NThreads

-----------------------------------------------------------------------------
(* utils.rs *)

LowerCase == {"a", "b"}
UpperCase == {"A"}
Digits == {"0", "1"}

is_ascii_alphanumeric(c) == c \in LowerCase \cup UpperCase \cup Digits

\* mutant: the earlier policy, which let hyphens through
sanitize_queue_name_hyphens(queue) ==
    IF queue = <<>> \/ ~(\A i \in 1..Len(queue) :
                            is_ascii_alphanumeric(queue[i]) \/ queue[i] \in {"_", "-"})
    THEN None
    ELSE Some(<<"q", "u", "e", "u", "e", "_">> \o queue)

\* sanitize_queue_name: None for an invalid name, else Some("queue_" + name)
sanitize_queue_name(queue) ==
    IF queue = <<>> \/ ~(\A i \in 1..Len(queue) :
                            is_ascii_alphanumeric(queue[i]) \/ queue[i] = "_")
    THEN None
    ELSE Some(<<"q", "u", "e", "u", "e", "_">> \o queue)

-----------------------------------------------------------------------------
(* Results *)

Ok(v) == [tag |-> "Ok", item |-> v]
QueueNotFound(queue) == [tag |-> "QueueNotFound", item |-> None]
BoolResult(b) == [tag |-> IF b THEN "true" ELSE "false", item |-> None]
NoCall ==
    [op |-> "none", queue |-> <<>>, item |-> None, result |-> Ok(None),
     replaced |-> None]


-----------------------------------------------------------------------------
(* Key order *)

\* Ord of DateTime<Utc>
DateTimeLt(a, b) ==
    a.millis < b.millis \/ (a.millis = b.millis /\ a.nanos < b.nanos)

\* mutant: None is greater than every Some
OptionLtNoneLast(x, y) ==
    \/ x # None /\ y = None
    \/ x # None /\ y # None /\ DateTimeLt(x[1], y[1])

\* Ord of Option<DateTime<Utc>>: None is less than every Some
OptionLt(x, y) ==
    \/ x = None /\ y # None
    \/ x # None /\ y # None /\ DateTimeLt(x[1], y[1])

\* Ord of the BTreeMap key (DateTime<Utc>, Option<DateTime<Utc>>)
KeyLt(k1, k2) ==
    DateTimeLt(k1[1], k2[1]) \/ (k1[1] = k2[1] /\ OptionLt(k1[2], k2[2]))

KeyOf(item) == <<item.datetime, item.datetime_secondary>>

-----------------------------------------------------------------------------
(* InMemoryStorage *)

\* InMemoryStorage::new
InMemoryNew(cfg) ==
    LET names == {cfg[i] : i \in 1..Len(cfg)}
    IN  [ok |-> TRUE,
         queues |-> names,
         sqls |-> [get |-> <<>>, put |-> <<>>, delete |-> <<>>],
         db |-> <<>>,
         mem |-> [q \in names |-> <<>>]]

\* mutant: an existing entry is kept (entry().or_insert)
BTreeInsertKeepOld(m, key, message) ==
    [k \in DOMAIN m \cup {key} |-> IF k \in DOMAIN m THEN m[k] ELSE message]

\* BTreeMap::insert: the entry of the key is created or overwritten
BTreeInsert(m, key, message) ==
    [k \in DOMAIN m \cup {key} |-> IF k = key THEN message ELSE m[k]]

\* BTreeMap::first_key_value: the entry with the least key, if any
BTreeFirstKey(m) ==
    IF DOMAIN m = {} THEN None
    ELSE Some(CHOOSE k \in DOMAIN m : \A o \in DOMAIN m : ~KeyLt(o, k))

\* mutant: clear(), the map is emptied
BTreeClear(m, key) == <<>>

\* the map pop_first leaves behind, given the key it found
BTreeRemove(m, key) == [k \in DOMAIN m \ {key} |-> m[k]]

MemItem(m, key) ==
    [datetime |-> key[1], datetime_secondary |-> key[2], message |-> m[key]]

\* InMemoryStorage::put_item under the write guard
MemPut(queue, item) ==
    IF queue \in DOMAIN mem
    THEN [mem EXCEPT ![queue] = BTreeInsert(@, KeyOf(item), item.message)]
    ELSE mem

\* InMemoryStorage::get_item under the read guard
MemGet(queue) ==
    IF queue \in DOMAIN mem /\ BTreeFirstKey(mem[queue]) # None
    THEN Ok(Some(MemItem(mem[queue], BTreeFirstKey(mem[queue])[1])))
    ELSE Ok(None)

\* InMemoryStorage::delete_item under the write guard: the value returned for
\* the key pop_first found, and the map it leaves
MemDeleteResult(queue, found) ==
    IF found # None /\ found[1] \in DOMAIN mem[queue]
    THEN Ok(Some(MemItem(mem[queue], found[1])))
    ELSE Ok(None)

MemDeleteStore(queue, found) ==
    IF found # None
    THEN [mem EXCEPT ![queue] = BTreeRemove(@, found[1])]
    ELSE mem

MemFound(queue) ==
    IF queue \in DOMAIN mem THEN BTreeFirstKey(mem[queue]) ELSE None

-----------------------------------------------------------------------------
(* SqliteStorage *)

\* SQLite resolves identifiers without regard to ASCII case: the table a
\* statement names is found under its case-folded name
sqlite_fold_char(c) == IF c = "A" THEN "a" ELSE c
sqlite_identifier(name) == [i \in 1..Len(name) |-> sqlite_fold_char(name[i])]

\* SqliteStorage::new: every name is sanitized (a rejected name fails the
\* construction), CREATE TABLE IF NOT EXISTS leaves an existing table alone,
\* and the three statements of a queue are built on its table name
SqliteNew(cfg) ==
    LET names == {cfg[i] : i \in 1..Len(cfg)}
        table(q) == sanitize_queue_name(q)[1]
        built == [q \in names |-> table(q)]
    IN  IF \E q \in names : sanitize_queue_name(q) = None
        THEN [ok |-> FALSE, queues |-> {}, db |-> <<>>, mem |-> <<>>,
              sqls |-> [get |-> <<>>, put |-> <<>>, delete |-> <<>>]]
        ELSE [ok |-> TRUE,
              queues |-> names,
              sqls |-> [get |-> built, put |-> built, delete |-> built],
              db |-> [t \in {sqlite_identifier(table(q)) : q \in names} |-> {}],
              mem |-> <<>>]

\* mutant: the tables are created anew, whatever the file holds
SqliteNewOnEmptied(cfg, file) == SqliteNew(cfg)

\* SqliteStorage::new on a database file that exists already: the file is
\* opened as it is, CREATE TABLE IF NOT EXISTS adds the missing tables only
\* and the rows of the existing ones stay
SqliteNewOn(cfg, file) ==
    LET fresh == SqliteNew(cfg)
    IN  [fresh EXCEPT !.db = [t \in DOMAIN fresh.db \cup DOMAIN file |->
                                 IF t \in DOMAIN file THEN file[t] ELSE {}]]

\* mutant: timestamp() * 1000, the whole seconds
timestamp_seconds_as_millis(d) == (d.millis \div 1000) * 1000

\* mutant: timestamp_micros(), a thousand times the milliseconds
timestamp_micros(d) == d.millis * 1000

\* DateTime::timestamp_millis: the whole milliseconds, the rest is dropped
timestamp_millis(d) == d.millis

\* DateTime::from_timestamp_millis
from_timestamp_millis(m) == DT(m, 0)

\* mutant: unwrap_or(0), an absent secondary timestamp is stored as the epoch
EncodeSecondaryEpoch(datetime_secondary) ==
    IF datetime_secondary = None THEN 0
    ELSE timestamp_millis(datetime_secondary[1])

\* the column values put_item binds to ?1 and ?2
EncodeSecondary(datetime_secondary) ==
    IF datetime_secondary = None THEN I64_MIN
    ELSE timestamp_millis(datetime_secondary[1])

\* the QueueItem get_item and delete_item build from a returned row
DecodeRow(row) ==
    [datetime |-> from_timestamp_millis(row.datetime),
     datetime_secondary |->
        IF row.datetime_secondary = I64_MIN THEN None
        ELSE Some(from_timestamp_millis(row.datetime_secondary)),
     message |-> row.message]

\* mutant: ORDER BY datetime ASC, datetime_secondary DESC
RowLtSecondaryDesc(r1, r2) ==
    \/ r1.datetime < r2.datetime
    \/ r1.datetime = r2.datetime /\ r1.datetime_secondary > r2.datetime_secondary

\* ORDER BY datetime ASC, datetime_secondary ASC
RowLt(r1, r2) ==
    \/ r1.datetime < r2.datetime
    \/ r1.datetime = r2.datetime /\ r1.datetime_secondary < r2.datetime_secondary

\* mutant: the condition valid = 1 is left out of the WHERE clause
SelectFirstAnyRow(rows) ==
    LET first == {r \in rows : \A o \in rows : ~RowLt(o, r)}
    IN  IF first = {} THEN {} ELSE {CHOOSE r \in first : TRUE}

\* SELECT ... WHERE valid = 1 ORDER BY ... LIMIT 1: the rows selected (none or
\* one): a valid row that no valid row precedes
SelectFirstValid(rows) ==
    LET valid == {r \in rows : r.valid = 1}
        first == {r \in valid : \A o \in valid : ~RowLt(o, r)}
    IN  IF first = {} THEN {} ELSE {CHOOSE r \in first : TRUE}

\* mutant: a plain INSERT into a table without the PRIMARY KEY
InsertKeepingConflicts(rows, datetime, datetime_secondary, message) ==
    rows \cup {[datetime |-> datetime, datetime_secondary |-> datetime_secondary,
                message |-> message, valid |-> 1]}

\* mutant: INSERT OR IGNORE, a row in conflict on the primary key stays
InsertOrIgnore(rows, datetime, datetime_secondary, message) ==
    IF \E r \in rows : r.datetime = datetime /\ r.datetime_secondary = datetime_secondary
    THEN rows
    ELSE rows \cup {[datetime |-> datetime, datetime_secondary |-> datetime_secondary,
                     message |-> message, valid |-> 1]}

\* mutant: INSERT ... ON CONFLICT DO UPDATE SET message, the row in conflict
\* keeps its flag
InsertOrUpdateMessage(rows, datetime, datetime_secondary, message) ==
    {IF r.datetime = datetime /\ r.datetime_secondary = datetime_secondary
     THEN [r EXCEPT !.message = message] ELSE r : r \in rows}
    \cup IF \E r \in rows : r.datetime = datetime
                             /\ r.datetime_secondary = datetime_secondary
         THEN {}
         ELSE {[datetime |-> datetime, datetime_secondary |-> datetime_secondary,
                message |-> message, valid |-> 1]}

\* INSERT OR REPLACE INTO t (datetime, datetime_secondary, message): rows in
\* conflict on the primary key are removed, valid takes its default 1
InsertOrReplace(rows, datetime, datetime_secondary, message) ==
    {r \in rows : ~(r.datetime = datetime
                    /\ r.datetime_secondary = datetime_secondary)}
    \cup {[datetime |-> datetime, datetime_secondary |-> datetime_secondary,
           message |-> message, valid |-> 1]}

\* mutant: the condition on datetime_secondary is left out
UpdateMatchesPrimaryOnly(rows, selected) ==
    {r \in rows : \E s \in selected : r.datetime = s.datetime}

\* UPDATE t SET valid = 0 WHERE datetime = (SELECT datetime ...) AND
\* datetime_secondary = (SELECT datetime_secondary ...): the rows that match
\* the two scalar subqueries, given the row the subqueries selected
UpdateMatches(rows, selected) ==
    {r \in rows : \E s \in selected :
        r.datetime = s.datetime /\ r.datetime_secondary = s.datetime_secondary}

\* mutant: DELETE FROM t WHERE ..., the matching rows are removed
DeleteMatching(rows, selected) == rows \ UpdateMatches(rows, selected)

UpdateInvalidate(rows, selected) ==
    {IF r \in UpdateMatches(rows, selected) THEN [r EXCEPT !.valid = 0] ELSE r
        : r \in rows}

\* the table a statement of the queue runs on
TableOf(stmts, queue) == sqlite_identifier(stmts[queue])

\* SqliteStorage::put_item after the allow-list check
SqlitePut(queue, item) ==
    IF queue \in DOMAIN sqls.put
    THEN [result |-> Ok(None),
          db |-> [db EXCEPT ![TableOf(sqls.put, queue)] =
                    InsertOrReplace(@, timestamp_millis(item.datetime),
                                    EncodeSecondary(item.datetime_secondary),
                                    item.message)]]
    ELSE [result |-> QueueNotFound(queue), db |-> db]

\* mutant: without .optional(), no row is the error QueryReturnedNoRows
QueryRowNoOptional(returned) ==
    IF returned = {} THEN [tag |-> "Database", item |-> None]
    ELSE Ok(Some(DecodeRow(CHOOSE r \in returned : TRUE)))

\* query_row(...).optional(): the first returned row, decoded
QueryRowOptional(returned) ==
    IF returned = {} THEN Ok(None)
    ELSE Ok(Some(DecodeRow(CHOOSE r \in returned : TRUE)))

\* SqliteStorage::get_item after the allow-list check
SqliteGet(queue) ==
    IF queue \in DOMAIN sqls.get
    THEN QueryRowOptional(SelectFirstValid(db[TableOf(sqls.get, queue)]))
    ELSE QueueNotFound(queue)

\* SqliteStorage::delete_item after the allow-list check: the rows its two
\* subqueries select, the value returned, and the table left
SqliteFound(queue) ==
    IF queue \in DOMAIN sqls.delete
    THEN SelectFirstValid(db[TableOf(sqls.delete, queue)])
    ELSE {}

SqliteDeleteResult(queue, selected) ==
    IF queue \in DOMAIN sqls.delete
    THEN QueryRowOptional(
            UpdateMatches(db[TableOf(sqls.delete, queue)], selected))
    ELSE QueueNotFound(queue)

\* mutant: the row is returned and keeps valid = 1
SqliteDeleteStoreSkipped(queue, selected) == db

SqliteDeleteStore(queue, selected) ==
    IF queue \in DOMAIN sqls.delete
    THEN [db EXCEPT ![TableOf(sqls.delete, queue)] =
            UpdateInvalidate(@, selected)]
    ELSE db

-----------------------------------------------------------------------------
(* impl Storage: a whole call, as one caller sees it *)

\* mutant: the allow-list check is left to the lookup of the queue's map
put_item_unchecked(queue, item) ==
    IF backend = "sqlite"
    THEN LET r == SqlitePut(queue, item)
         IN  [result |-> r.result, db |-> r.db, mem |-> mem]
    ELSE [result |-> Ok(None), db |-> db, mem |-> MemPut(queue, item)]

\* impl Storage for SqliteStorage: put_item
SqliteStorage_put_item(queue, item) ==
    IF queue \notin queues
    THEN [result |-> QueueNotFound(queue), db |-> db, mem |-> mem]
    ELSE LET r == SqlitePut(queue, item)
         IN  [result |-> r.result, db |-> r.db, mem |-> mem]

\* impl Storage for InMemoryStorage: put_item
InMemoryStorage_put_item(queue, item) ==
    IF queue \notin queues
    THEN [result |-> QueueNotFound(queue), db |-> db, mem |-> mem]
    ELSE [result |-> Ok(None), db |-> db, mem |-> MemPut(queue, item)]

\* Storage::put_item
put_item(queue, item) ==
    IF backend = "sqlite"
    THEN SqliteStorage_put_item(queue, item)
    ELSE InMemoryStorage_put_item(queue, item)

\* mutant: the peek takes the item out, as delete_item does
get_item_popping(queue) ==
    IF queue \notin queues
    THEN [result |-> QueueNotFound(queue), db |-> db, mem |-> mem]
    ELSE IF backend = "sqlite"
    THEN [result |-> SqliteGet(queue),
          db |-> SqliteDeleteStore(queue, SqliteFound(queue)), mem |-> mem]
    ELSE [result |-> MemGet(queue), db |-> db,
          mem |-> MemDeleteStore(queue, MemFound(queue))]

\* impl Storage for SqliteStorage: get_item
SqliteStorage_get_item(queue) ==
    IF queue \notin queues
    THEN [result |-> QueueNotFound(queue), db |-> db, mem |-> mem]
    ELSE [result |-> SqliteGet(queue), db |-> db, mem |-> mem]

\* impl Storage for InMemoryStorage: get_item
InMemoryStorage_get_item(queue) ==
    IF queue \notin queues
    THEN [result |-> QueueNotFound(queue), db |-> db, mem |-> mem]
    ELSE [result |-> MemGet(queue), db |-> db, mem |-> mem]

\* Storage::get_item
get_item(queue) ==
    IF backend = "sqlite"
    THEN SqliteStorage_get_item(queue)
    ELSE InMemoryStorage_get_item(queue)

\* impl Storage for SqliteStorage: delete_item
SqliteStorage_delete_item(queue) ==
    IF queue \notin queues
    THEN [result |-> QueueNotFound(queue), db |-> db, mem |-> mem]
    ELSE LET selected == SqliteFound(queue)
         IN  [result |-> SqliteDeleteResult(queue, selected),
              db |-> SqliteDeleteStore(queue, selected),
              mem |-> mem]

\* impl Storage for InMemoryStorage: delete_item
InMemoryStorage_delete_item(queue) ==
    IF queue \notin queues
    THEN [result |-> QueueNotFound(queue), db |-> db, mem |-> mem]
    ELSE LET found == MemFound(queue)
         IN  [result |-> MemDeleteResult(queue, found),
              db |-> db,
              mem |-> MemDeleteStore(queue, found)]

\* Storage::delete_item
delete_item(queue) ==
    IF backend = "sqlite"
    THEN SqliteStorage_delete_item(queue)
    ELSE InMemoryStorage_delete_item(queue)

\* mutant: a queue exists when the backend holds a table or a map for it
queue_exists_by_table(queue) ==
    IF backend = "sqlite"
    THEN /\ sanitize_queue_name(queue) # None
         /\ sqlite_identifier(sanitize_queue_name(queue)[1]) \in DOMAIN db
    ELSE queue \in DOMAIN mem

\* Storage::queue_exists
queue_exists(queue) == queue \in queues

-----------------------------------------------------------------------------
(* Views of the stored state *)

\* rows (tombstones included) and map entries held by the given store
StoredIn(d, m) ==
    Cardinality(UNION {{<<t, r>> : r \in d[t]} : t \in DOMAIN d})
    + Cardinality(UNION {{<<q, k>> : k \in DOMAIN m[q]} : q \in DOMAIN m})

\* the active items of a queue, as get and delete return them
ActiveItems(queue) ==
    IF queue \notin queues THEN {}
    ELSE IF backend = "sqlite"
    THEN {DecodeRow(r) : r \in {x \in db[TableOf(sqls.get, queue)] : x.valid = 1}}
    ELSE {MemItem(mem[queue], k) : k \in DOMAIN mem[queue]}

\* whether the queue holds an active item with this key
KeyActive(queue, key) == \E x \in ActiveItems(queue) : KeyOf(x) = key

\* the payload a put of the item overwrites, if its key is active (the value
\* BTreeMap::insert hands back and put_item drops); observed in `last` only
Replaced(queue, item) ==
    IF KeyActive(queue, KeyOf(item))
    THEN Some((CHOOSE x \in ActiveItems(queue) : KeyOf(x) = KeyOf(item)).message)
    ELSE None

\* the names of config.queues
ConfigNames == {config[i] : i \in 1..Len(config)}

-----------------------------------------------------------------------------
(* One caller at a time *)

\* the backend built at startup from the configuration
NewStorage(b, cfg) ==
    IF b = "sqlite" THEN SqliteNew(cfg) ELSE InMemoryNew(cfg)

Init ==
    \E b \in Backends, c \in Configs :
        /\ NewStorage(b, c).ok
        /\ backend = b
        /\ config = c
        /\ queues = NewStorage(b, c).queues
        /\ sqls = NewStorage(b, c).sqls
        /\ db = NewStorage(b, c).db
        /\ mem = NewStorage(b, c).mem
        /\ last = NoCall
        /\ hist = <<>>
        /\ phase = "seq"
        /\ pc = [t \in Threads |-> "idle"]
        /\ call = [t \in Threads |-> [op |-> "none", queue |-> <<>>, item |-> None]]
        /\ sel = [t \in Threads |-> IF b = "sqlite" THEN {} ELSE None]
        /\ ret = [t \in Threads |-> Ok(None)]
        /\ lock = {}
        /\ pool = {}
        /\ atSpawn = <<>>

Put(queue, item) ==
    /\ phase = "seq"
    /\ LET r == put_item(queue, item)
       IN  /\ StoredIn(r.db, r.mem) <= MaxStored
           /\ db' = r.db
           /\ mem' = r.mem
           /\ last' = [op |-> "put", queue |-> queue, item |-> Some(item),
                       result |-> r.result,
                       replaced |-> Replaced(queue, item)]
    /\ UNCHANGED <<setupVars, hist, phase, threadVars>>

Get(queue) ==
    /\ phase = "seq"
    /\ LET r == get_item(queue)
       IN  /\ db' = r.db
           /\ mem' = r.mem
           /\ last' = [op |-> "get", queue |-> queue, item |-> None,
                       result |-> r.result, replaced |-> None]
    /\ UNCHANGED <<setupVars, hist, phase, threadVars>>

Delete(queue) ==
    /\ phase = "seq"
    /\ LET r == delete_item(queue)
       IN  /\ db' = r.db
           /\ mem' = r.mem
           /\ last' = [op |-> "delete", queue |-> queue, item |-> None,
                       result |-> r.result, replaced |-> None]
    /\ UNCHANGED <<setupVars, hist, phase, threadVars>>

QueueExists(queue) ==
    /\ phase = "seq"
    /\ last' = [op |-> "queue_exists", queue |-> queue, item |-> None,
                result |-> BoolResult(queue_exists(queue)),
                replaced |-> None]
    /\ UNCHANGED <<setupVars, storeVars, hist, phase, threadVars>>

PutStep == \E queue \in Names, item \in QueueItems : Put(queue, item)
GetStep == \E queue \in Names : Get(queue)
DeleteStep == \E queue \in Names : Delete(queue)
QueueExistsStep == \E queue \in Names : QueueExists(queue)

Next == PutStep \/ GetStep \/ DeleteStep \/ QueueExistsStep

Spec == Init /\ [][Next]_vars

-----------------------------------------------------------------------------
(* The order the specification states: primary timestamp ascending, then    *)
(* secondary timestamp ascending, an absent secondary before any present one *)

SpecBefore(a, b) ==
    a.millis < b.millis \/ (a.millis = b.millis /\ a.nanos < b.nanos)

SpecKeyLess(i, j) ==
    \/ SpecBefore(i.datetime, j.datetime)
    \/ /\ i.datetime = j.datetime
       /\ \/ i.datetime_secondary = None /\ j.datetime_secondary # None
          \/ /\ i.datetime_secondary # None
             /\ j.datetime_secondary # None
             /\ SpecBefore(i.datetime_secondary[1], j.datetime_secondary[1])

StoreUnchanged == db' = db /\ mem' = mem

-----------------------------------------------------------------------------
(* Scenarios: puts into an empty queue, then gets and deletes on it *)

HistPuts == {n \in 1..Len(hist) : hist[n].op = "put"}
HistReads == {n \in 1..Len(hist) : hist[n].op # "put"}

\* the queue of the scenario: any configured one, the same for every call
HistQueue(queue) ==
    /\ queue \in ConfigNames
    /\ hist # <<>> => queue = hist[1].queue

HPut(queue, item) ==
    /\ phase = "seq"
    /\ HistQueue(queue)
    /\ HistReads = {}
    /\ Len(hist) < MaxPuts
    /\ LET r == put_item(queue, item)
       IN  /\ db' = r.db
           /\ mem' = r.mem
           /\ hist' = Append(hist, [op |-> "put", queue |-> queue,
                                    item |-> Some(item), result |-> r.result])
    /\ UNCHANGED <<setupVars, last, phase, threadVars>>

HGet(queue) ==
    /\ phase = "seq"
    /\ HistQueue(queue)
    /\ Cardinality(HistReads) <= Cardinality(HistPuts)
    /\ LET r == get_item(queue)
       IN  /\ db' = r.db
           /\ mem' = r.mem
           /\ hist' = Append(hist, [op |-> "get", queue |-> queue,
                                    item |-> None, result |-> r.result])
    /\ UNCHANGED <<setupVars, last, phase, threadVars>>

HDelete(queue) ==
    /\ phase = "seq"
    /\ HistQueue(queue)
    /\ Cardinality(HistReads) <= Cardinality(HistPuts)
    /\ LET r == delete_item(queue)
       IN  /\ db' = r.db
           /\ mem' = r.mem
           /\ hist' = Append(hist, [op |-> "delete", queue |-> queue,
                                    item |-> None, result |-> r.result])
    /\ UNCHANGED <<setupVars, last, phase, threadVars>>

HPutStep == \E queue \in Names, item \in OrderItems : HPut(queue, item)
HGetStep == \E queue \in Names : HGet(queue)
HDeleteStep == \E queue \in Names : HDelete(queue)

HistNext == HPutStep \/ HGetStep \/ HDeleteStep

SpecHist == Init /\ [][HistNext]_vars


-----------------------------------------------------------------------------
(* Claims checked under Spec *)

\* C3: a put whose key is already active in the queue succeeds and overwrites
\* the payload: afterwards the queue holds exactly one active item with that
\* key, it carries the new payload, and a get or delete that returns the key
\* returns the new payload.
C3_PutOverwrites ==
    /\ [][last'.op = "put" =>
           \A q \in ConfigNames :
           LET i == last'.item[1]
               after == {x \in ActiveItems(q)' : KeyOf(x) = KeyOf(i)}
           IN  (last'.queue = q /\ KeyActive(q, KeyOf(i)))
               => /\ last'.result = Ok(None)
                  /\ last'.replaced # None
                  /\ Cardinality(after) = 1
                  /\ \A x \in after : x.message = i.message
         ]_vars
    /\ [][(/\ last.op = "put" /\ last.replaced # None
           /\ last'.op \in {"get", "delete"} /\ last'.queue = last.queue
           /\ last'.result.item # None
           /\ KeyOf(last'.result.item[1]) = KeyOf(last.item[1]))
          => last'.result.item[1].message = last.item[1].message
         ]_vars

\* a put has overwritten an active key that carried another payload
C3_Witness ==
    /\ last.op = "put"
    /\ last.result = Ok(None)
    /\ last.replaced # None
    /\ last.replaced[1] # last.item[1].message

\* C4: get never mutates state: the stored items of every queue (rows with
\* their valid flags, map entries) are the same after a get as before it,
\* whatever it returns, and a get repeated right away returns the same.
C4_GetNeverMutates ==
    [][last'.op = "get"
        => /\ StoreUnchanged
           /\ \A q \in Names : ActiveItems(q)' = ActiveItems(q)
           /\ (last.op = "get" /\ last.queue = last'.queue)
                => last'.result = last.result
      ]_vars

\* a get has returned an item while the queues hold as much as they may
C4_Witness ==
    /\ last.op = "get"
    /\ last.result.item # None
    /\ StoredIn(db, mem) = MaxStored

\* C5: on a non-empty queue delete returns the item get returns in the same
\* state, the active item with the least key; afterwards that key is not
\* active and the other active items of the queue are as before.
C5_DeleteReturnsMinimum ==
    [][\A q \in Names :
        (last'.op = "delete" /\ last'.queue = q /\ ActiveItems(q) # {})
        => \E x \in ActiveItems(q) :
            /\ last'.result = Ok(Some(x))
            /\ get_item(q).result = Ok(Some(x))
            /\ \A o \in ActiveItems(q) : o = x \/ SpecKeyLess(x, o)
            /\ ~(KeyActive(q, KeyOf(x)))'
            /\ ActiveItems(q)' = ActiveItems(q) \ {x}
      ]_vars

\* a delete has returned an item and left another one active
C5_Witness ==
    /\ last.op = "delete"
    /\ last.result.item # None
    /\ ActiveItems(last.queue) # {}

\* C6: delete on an allow-listed queue without active items returns empty,
\* not an error and not an item, and changes nothing.
C6_DeleteOnEmpty ==
    [][\A q \in Names :
        (/\ last'.op = "delete" /\ last'.queue = q
         /\ q \in ConfigNames
         /\ ActiveItems(q) = {})
        => last'.result = Ok(None) /\ StoreUnchanged
      ]_vars

\* a delete has found an allow-listed queue empty while something is stored
C6_Witness ==
    /\ last.op = "delete"
    /\ last.queue \in ConfigNames
    /\ last.result = Ok(None)
    /\ StoredIn(db, mem) > 0

\* C8: put, get and delete on a name outside the allow-list return
\* QueueNotFound and change nothing; on a name of the allow-list they never
\* return QueueNotFound.
C8_QueueNotFound ==
    [][\A q \in Names :
        (last'.op \in {"put", "get", "delete"} /\ last'.queue = q)
        => /\ q \notin ConfigNames
                => last'.result.tag = "QueueNotFound" /\ StoreUnchanged
           /\ q \in ConfigNames => last'.result.tag # "QueueNotFound"
      ]_vars

\* a put on an unknown name was refused while items are stored
C8_Witness ==
    /\ last.op = "put"
    /\ last.queue \notin ConfigNames
    /\ last.result.tag = "QueueNotFound"
    /\ StoredIn(db, mem) > 0

\* C9: the allow-list is the set of configured names for ever: queue_exists
\* answers true exactly for them after any calls, and changes nothing.
C9_AllowListFixed ==
    /\ [](\A q \in Names : queue_exists(q) <=> q \in ConfigNames)
    /\ [][/\ queues' = queues
          /\ last'.op = "queue_exists"
                => /\ last'.result = BoolResult(last'.queue \in ConfigNames)
                   /\ StoreUnchanged
         ]_vars

\* queue_exists has answered false for an unknown name after puts
C9_Witness ==
    /\ last.op = "queue_exists"
    /\ last.result = BoolResult(FALSE)
    /\ StoredIn(db, mem) > 0

\* C10: queues are isolated: a put or delete on one allow-listed queue
\* changes neither the active items of another allow-listed queue nor what
\* get and delete return on it.
C10_QueuesIsolated ==
    [][\A q1 \in Names, q2 \in Names :
        (/\ q1 \in ConfigNames /\ q2 \in ConfigNames /\ q1 # q2
         /\ last'.op \in {"put", "delete"} /\ last'.queue = q1)
        => /\ ActiveItems(q2)' = ActiveItems(q2)
           /\ (get_item(q2).result)' = get_item(q2).result
           /\ (delete_item(q2).result)' = delete_item(q2).result
      ]_vars

-----------------------------------------------------------------------------
(* Claims checked under SpecHist *)

\* a timestamp at the resolution of the durable backend's key columns
SpecWholeMillis(d) == [millis |-> d.millis, nanos |-> 0]

\* an item as the backend in use keeps it: at full precision in memory, with
\* both timestamps cut to whole milliseconds in the database
Resolved(i) ==
    IF backend = "sqlite"
    THEN [datetime |-> SpecWholeMillis(i.datetime),
          datetime_secondary |->
             IF i.datetime_secondary = None THEN None
             ELSE Some(SpecWholeMillis(i.datetime_secondary[1])),
          message |-> i.message]
    ELSE i

HistItem(n) == hist[n].item[1]

\* the scenario of C2: two puts into the empty queue, then a get
TwoPutsThenGet ==
    /\ Len(hist) = 3
    /\ hist[1].op = "put" /\ hist[2].op = "put" /\ hist[3].op = "get"

SmallerOf(i1, i2) == IF SpecKeyLess(i1, i2) THEN i1 ELSE i2

\* C2 as stated: of two items with distinct keys put into an empty queue, in
\* either order, get returns the one whose key is smaller.
C2_GetReturnsSmaller ==
    (TwoPutsThenGet /\ KeyOf(HistItem(1)) # KeyOf(HistItem(2)))
    => hist[3].result = Ok(Some(SmallerOf(HistItem(1), HistItem(2))))

\* C2 as amended: of two items put into an empty queue whose keys differ at
\* the resolution of the backend (whole milliseconds in the database, full
\* precision in memory), get returns, as the backend keeps it, the one whose
\* key is smaller at that resolution.
C2_GetReturnsSmallerResolved ==
    (/\ TwoPutsThenGet
     /\ KeyOf(Resolved(HistItem(1))) # KeyOf(Resolved(HistItem(2))))
    => hist[3].result =
          Ok(Some(SmallerOf(Resolved(HistItem(1)), Resolved(HistItem(2)))))

\* the larger item was put first, the two differ in the secondary timestamp
\* only, absent against present, and get has returned the absent one
C2_Witness ==
    /\ TwoPutsThenGet
    /\ HistItem(1).datetime = HistItem(2).datetime
    /\ HistItem(1).datetime_secondary # None
    /\ HistItem(2).datetime_secondary = None
    /\ hist[3].result = Ok(Some(Resolved(HistItem(2))))

\* the scenario of C7: K puts, then deletes, K of them at least before any get
PutCount == Cardinality(HistPuts)
PutItems == {HistItem(n) : n \in HistPuts}

PutsThenDeletes ==
    /\ PutCount >= 1
    /\ \A n \in HistReads : n <= 2 * PutCount => hist[n].op = "delete"

\* the j-th item of a set in ascending key order
NthByKey(S, j) ==
    CHOOSE x \in S : Cardinality({y \in S : SpecKeyLess(y, x)}) = j - 1

\* the reads return the items in ascending key order, then empty
ReadsAscending(S) ==
    \A n \in HistReads :
        IF n - PutCount <= Cardinality(S)
        THEN hist[n].result = Ok(Some(NthByKey(S, n - PutCount)))
        ELSE hist[n].result = Ok(None)

\* C7 as stated: after K puts of items with pairwise distinct keys into an
\* empty queue, K deletes return all K items in strictly ascending key order
\* and every later get or delete reports empty.
C7_DeletesAscending ==
    (/\ PutsThenDeletes
     /\ \A a, b \in HistPuts :
            a # b => KeyOf(HistItem(a)) # KeyOf(HistItem(b)))
    => ReadsAscending(PutItems)

\* C7 as amended: after K puts of items whose keys are pairwise distinct at
\* the resolution of the backend, K deletes return the K items, as the
\* backend keeps them, in strictly ascending key order and every later get
\* or delete reports empty.
C7_DeletesAscendingResolved ==
    (/\ PutsThenDeletes
     /\ \A a, b \in HistPuts :
            a # b => KeyOf(Resolved(HistItem(a))) # KeyOf(Resolved(HistItem(b))))
    => ReadsAscending({Resolved(i) : i \in PutItems})

\* as many puts as the scenario allows, of keys distinct at the backend's
\* resolution and not put in ascending order, every item deleted, and one
\* more delete that found the queue empty
C7_Witness ==
    /\ PutsThenDeletes
    /\ PutCount = MaxPuts
    /\ Cardinality({KeyOf(Resolved(i)) : i \in PutItems}) = MaxPuts
    /\ SpecKeyLess(HistItem(2), HistItem(1))
    /\ Len(hist) = 2 * MaxPuts + 1
    /\ hist[Len(hist)].op = "delete"
    /\ hist[Len(hist)].result = Ok(None)

-----------------------------------------------------------------------------
(* Concurrent callers: delete_item step by step, one thread per call *)

MinOf(a, b) == IF a < b THEN a ELSE b

DatabaseError == [tag |-> "Database", item |-> None]
PoolError == [tag |-> "PoolError", item |-> None]

\* the items the queue is seeded with before the threads start
FillItems == {i \in QueueItems : i.message = "x"}

\* a put by the only caller there is before the threads are spawned
Fill(queue, item) ==
    /\ phase = "seq"
    /\ queue \in queues
    /\ LET r == put_item(queue, item)
       IN  /\ StoredIn(r.db, r.mem) <= MaxStored
           /\ db' = r.db
           /\ mem' = r.mem
    /\ UNCHANGED <<setupVars, last, hist, phase, threadVars>>

\* n threads are started, each with one delete_item call on the same queue
Spawn(queue, n) ==
    /\ phase = "seq"
    /\ phase' = "conc"
    /\ atSpawn' = [queue |-> queue, items |-> ActiveItems(queue), callers |-> 1..n]
    /\ pc' = [t \in Threads |-> IF t <= n THEN "start" ELSE "idle"]
    /\ call' = [t \in Threads |->
                  IF t <= n THEN [op |-> "delete", queue |-> queue, item |-> None]
                  ELSE call[t]]
    /\ UNCHANGED <<setupVars, storeVars, last, hist, sel, ret, lock, pool>>

\* mutant: a writer is let in whoever else is writing
CanWriteAlways(t) == TRUE

\* RwLock::write returns, and SQLite grants the write lock of the database
\* file, only when nobody else holds the lock
CanWrite(t) == lock = {}

\* mutant: a reader is let in while a writer holds the lock
CanReadBesideWriter(t) == TRUE

\* RwLock::read returns when no writer holds the lock
CanRead(t) == \A u \in lock : call[u].op = "get"

\* mutant: pool.get() without connection_timeout, a call that finds the pool
\* exhausted waits until a connection is given back
EnterWaitingForPool(t) ==
    /\ pc[t] = "start"
    /\ IF call[t].queue \notin queues
       THEN /\ ret' = [ret EXCEPT ![t] = QueueNotFound(call[t].queue)]
            /\ pc' = [pc EXCEPT ![t] = "done"]
            /\ UNCHANGED <<lock, pool>>
       ELSE IF backend = "memory"
       THEN /\ IF call[t].op = "get" THEN CanRead(t) ELSE CanWrite(t)
            /\ lock' = lock \cup {t}
            /\ pc' = [pc EXCEPT ![t] = IF call[t].op = "put" THEN "update"
                                       ELSE "select"]
            /\ UNCHANGED <<ret, pool>>
       ELSE /\ Cardinality(pool) < PoolSize
            /\ pool' = pool \cup {t}
            /\ pc' = [pc EXCEPT ![t] = IF call[t].op = "get" THEN "select"
                                       ELSE "begin"]
            /\ UNCHANGED <<ret, lock>>
    /\ UNCHANGED <<setupVars, storeVars, last, hist, phase, call, sel, atSpawn>>

\* a call up to the point where it holds what it needs: the allow-list
\* check, then the guard of the map (InMemoryStorage: read for get_item,
\* write for put_item and delete_item) or a connection of the pool
\* (SqliteStorage)
Enter(t) ==
    /\ pc[t] = "start"
    /\ IF call[t].queue \notin queues
       THEN /\ ret' = [ret EXCEPT ![t] = QueueNotFound(call[t].queue)]
            /\ pc' = [pc EXCEPT ![t] = "done"]
            /\ UNCHANGED <<lock, pool>>
       ELSE IF backend = "memory"
       THEN /\ IF call[t].op = "get" THEN CanRead(t) ELSE CanWrite(t)
            /\ lock' = lock \cup {t}
            /\ pc' = [pc EXCEPT ![t] = IF call[t].op = "put" THEN "update"
                                       ELSE "select"]
            /\ UNCHANGED <<ret, pool>>
       ELSE IF Cardinality(pool) < PoolSize
       THEN /\ pool' = pool \cup {t}
            /\ pc' = [pc EXCEPT ![t] = IF call[t].op = "get" THEN "select"
                                       ELSE "begin"]
            /\ UNCHANGED <<ret, lock>>
       ELSE /\ ret' = [ret EXCEPT ![t] = PoolError]
            /\ pc' = [pc EXCEPT ![t] = "done"]
            /\ UNCHANGED <<lock, pool>>
    /\ UNCHANGED <<setupVars, storeVars, last, hist, phase, call, sel, atSpawn>>

\* SqliteStorage: the INSERT OR REPLACE or UPDATE statement opens its write
\* transaction
Begin(t) ==
    /\ pc[t] = "begin"
    /\ CanWrite(t)
    /\ lock' = lock \cup {t}
    /\ pc' = [pc EXCEPT ![t] = IF call[t].op = "put" THEN "update" ELSE "select"]
    /\ UNCHANGED <<setupVars, storeVars, last, hist, phase, call, sel, ret, pool,
                   atSpawn>>

\* SqliteStorage: another connection holds the write lock for the whole of
\* busy_timeout and the statement fails with SQLITE_BUSY
Busy(t) ==
    /\ pc[t] = "begin"
    /\ lock \ {t} # {}
    /\ ret' = [ret EXCEPT ![t] = DatabaseError]
    /\ pc' = [pc EXCEPT ![t] = "return"]
    /\ UNCHANGED <<setupVars, storeVars, last, hist, phase, call, sel, lock, pool,
                   atSpawn>>

\* the least key is looked up.  delete_item: pop_first finds the first
\* entry, the two subqueries of the UPDATE select the first valid row.
\* get_item: first_key_value, or the SELECT on the snapshot of the
\* connection, gives the result.
Select(t) ==
    /\ pc[t] = "select"
    /\ IF call[t].op = "get"
       THEN /\ ret' = [ret EXCEPT ![t] = IF backend = "sqlite"
                                         THEN SqliteGet(call[t].queue)
                                         ELSE MemGet(call[t].queue)]
            /\ pc' = [pc EXCEPT ![t] = "return"]
            /\ UNCHANGED sel
       ELSE /\ sel' = [sel EXCEPT ![t] = IF backend = "sqlite"
                                         THEN SqliteFound(call[t].queue)
                                         ELSE MemFound(call[t].queue)]
            /\ pc' = [pc EXCEPT ![t] = "update"]
            /\ UNCHANGED ret
    /\ UNCHANGED <<setupVars, storeVars, last, hist, phase, call, lock, pool,
                   atSpawn>>

\* the change is made.  delete_item: the entry is taken out and handed back
\* (pop_first removes it, the UPDATE sets valid = 0 on the matching rows,
\* returns them and commits).  put_item: BTreeMap::insert, or the INSERT OR
\* REPLACE and its commit.
Update(t) ==
    /\ pc[t] = "update"
    /\ IF call[t].op = "put"
       THEN IF backend = "sqlite"
            THEN /\ ret' = [ret EXCEPT ![t] =
                              SqlitePut(call[t].queue, call[t].item[1]).result]
                 /\ db' = SqlitePut(call[t].queue, call[t].item[1]).db
                 /\ lock' = lock \ {t}
                 /\ UNCHANGED mem
            ELSE /\ ret' = [ret EXCEPT ![t] = Ok(None)]
                 /\ mem' = MemPut(call[t].queue, call[t].item[1])
                 /\ UNCHANGED <<db, lock>>
       ELSE IF backend = "sqlite"
       THEN /\ ret' = [ret EXCEPT ![t] = SqliteDeleteResult(call[t].queue, sel[t])]
            /\ db' = SqliteDeleteStore(call[t].queue, sel[t])
            /\ lock' = lock \ {t}
            /\ UNCHANGED mem
       ELSE /\ ret' = [ret EXCEPT ![t] = MemDeleteResult(call[t].queue, sel[t])]
            /\ mem' = MemDeleteStore(call[t].queue, sel[t])
            /\ UNCHANGED <<db, lock>>
    /\ pc' = [pc EXCEPT ![t] = "return"]
    /\ UNCHANGED <<setupVars, last, hist, phase, call, sel, pool, atSpawn>>

\* mutant: a call that returns an error keeps its connection checked out
ReturnLeakingOnError(t) ==
    /\ pc[t] = "return"
    /\ lock' = lock \ {t}
    /\ pool' = IF ret[t].tag = "Ok" THEN pool \ {t} ELSE pool
    /\ pc' = [pc EXCEPT ![t] = "done"]
    /\ UNCHANGED <<setupVars, storeVars, last, hist, phase, call, sel, ret, atSpawn>>

\* the call returns: the guard or the pooled connection is dropped
Return(t) ==
    /\ pc[t] = "return"
    /\ lock' = lock \ {t}
    /\ pool' = pool \ {t}
    /\ pc' = [pc EXCEPT ![t] = "done"]
    /\ UNCHANGED <<setupVars, storeVars, last, hist, phase, call, sel, ret, atSpawn>>

FillStep == \E queue \in Names, item \in FillItems : Fill(queue, item)
SpawnStep == \E queue \in Names, n \in Threads : Spawn(queue, n)
EnterStep == \E t \in Threads : Enter(t)
BeginStep == \E t \in Threads : Begin(t)
BusyStep == \E t \in Threads : Busy(t)
SelectStep == \E t \in Threads : Select(t)
UpdateStep == \E t \in Threads : Update(t)
ReturnStep == \E t \in Threads : Return(t)

ConcNext ==
    \/ FillStep
    \/ SpawnStep
    \/ EnterStep
    \/ BeginStep
    \/ BusyStep
    \/ SelectStep
    \/ UpdateStep
    \/ ReturnStep

SpecConc == Init /\ [][ConcNext]_vars

-----------------------------------------------------------------------------
(* Claims checked under SpecConc *)

\* every spawned delete has returned, and they were aimed at a queue
AllReturned ==
    /\ phase = "conc"
    /\ atSpawn.queue \in queues
    /\ \A t \in atSpawn.callers : pc[t] = "done"

Returned == {t \in atSpawn.callers : ret[t].tag = "Ok" /\ ret[t].item # None}
Failed == {t \in atSpawn.callers : ret[t].tag # "Ok"}

\* the m smallest-key items of a set
SmallestByKey(S, m) ==
    {x \in S : Cardinality({y \in S : SpecKeyLess(y, x)}) < m}

\* of the calls counted, those that got no item got empty, the items handed
\* out are pairwise distinct, they are the smallest-key items the queue held
\* when the calls started, as many as there were calls or items, and what
\* was not handed out is still in the queue
DeletesShareOut(counted) ==
    LET m == MinOf(Cardinality(counted), Cardinality(atSpawn.items))
    IN  /\ Cardinality(Returned) = m
        /\ \A t \in counted \ Returned : ret[t] = Ok(None)
        /\ \A t, u \in Returned : t # u => ret[t].item # ret[u].item
        /\ {ret[t].item[1] : t \in Returned} = SmallestByKey(atSpawn.items, m)
        /\ ActiveItems(atSpawn.queue)
              = atSpawn.items \ {ret[t].item[1] : t \in Returned}

\* C1 as stated: when N deletes run concurrently on a queue holding K active
\* items, exactly min(N, K) of the calls return an item and the others return
\* empty; the items returned are pairwise distinct and are the min(N, K)
\* smallest-key items; no item leaves the queue unreturned.
C1_ConcurrentDeletes ==
    AllReturned => (Failed = {} /\ DeletesShareOut(atSpawn.callers))

\* C1 as amended: when N deletes run concurrently on a queue holding K active
\* items and M of them do not fail (a call fails when the database stays
\* locked for the busy timeout or no pooled connection comes free), exactly
\* min(M, K) of the calls return an item and the other non-failing calls
\* return empty; the items returned are pairwise distinct and are the
\* min(M, K) smallest-key items; no item leaves the queue unreturned.
C1_ConcurrentDeletesNotFailed ==
    AllReturned => DeletesShareOut(atSpawn.callers \ Failed)

\* more callers than items, at least two items, every item handed out and a
\* caller left with empty
C1_Witness ==
    /\ AllReturned
    /\ Cardinality(atSpawn.items) >= 2
    /\ Cardinality(atSpawn.callers) > Cardinality(atSpawn.items)
    /\ Cardinality(Returned) = Cardinality(atSpawn.items)
    /\ \E t \in atSpawn.callers : ret[t] = Ok(None)

-----------------------------------------------------------------------------
(* The two backends side by side: built from one configuration, given the  *)
(* same calls                                                               *)

\* SqliteStorage::new and InMemoryStorage::new on the same AppConfig
InitPair ==
    \E c \in Configs :
        /\ SqliteNew(c).ok
        /\ backend = "both"
        /\ config = c
        /\ queues = SqliteNew(c).queues
        /\ sqls = SqliteNew(c).sqls
        /\ db = SqliteNew(c).db
        /\ mem = InMemoryNew(c).mem
        /\ last = NoCall
        /\ hist = <<>>
        /\ phase = "seq"
        /\ pc = [t \in Threads |-> "idle"]
        /\ call = [t \in Threads |-> [op |-> "none", queue |-> <<>>, item |-> None]]
        /\ sel = [t \in Threads |-> None]
        /\ ret = [t \in Threads |-> Ok(None)]
        /\ lock = {}
        /\ pool = {}
        /\ atSpawn = <<>>

\* what the two backends returned for one call
BothResults(durable, volatile) == [durable |-> durable, volatile |-> volatile]

PairPut(queue, item) ==
    /\ LET s == SqliteStorage_put_item(queue, item)
           m == InMemoryStorage_put_item(queue, item)
       IN  /\ StoredIn(s.db, <<>>) <= MaxStored
           /\ StoredIn(<<>>, m.mem) <= MaxStored
           /\ db' = s.db
           /\ mem' = m.mem
           /\ last' = [op |-> "put", queue |-> queue, item |-> Some(item),
                       result |-> BothResults(s.result, m.result),
                       replaced |-> None]
    /\ UNCHANGED <<setupVars, hist, phase, threadVars>>

PairGet(queue) ==
    /\ LET s == SqliteStorage_get_item(queue)
           m == InMemoryStorage_get_item(queue)
       IN  /\ db' = s.db
           /\ mem' = m.mem
           /\ last' = [op |-> "get", queue |-> queue, item |-> None,
                       result |-> BothResults(s.result, m.result),
                       replaced |-> None]
    /\ UNCHANGED <<setupVars, hist, phase, threadVars>>

PairDelete(queue) ==
    /\ LET s == SqliteStorage_delete_item(queue)
           m == InMemoryStorage_delete_item(queue)
       IN  /\ db' = s.db
           /\ mem' = m.mem
           /\ last' = [op |-> "delete", queue |-> queue, item |-> None,
                       result |-> BothResults(s.result, m.result),
                       replaced |-> None]
    /\ UNCHANGED <<setupVars, hist, phase, threadVars>>

PairQueueExists(queue) ==
    /\ last' = [op |-> "queue_exists", queue |-> queue, item |-> None,
                result |-> BothResults(BoolResult(queue_exists(queue)),
                                       BoolResult(queue_exists(queue))),
                replaced |-> None]
    /\ UNCHANGED <<setupVars, storeVars, hist, phase, threadVars>>

PairPutStep == \E queue \in Names, item \in QueueItems : PairPut(queue, item)
PairGetStep == \E queue \in Names : PairGet(queue)
PairDeleteStep == \E queue \in Names : PairDelete(queue)
PairQueueExistsStep == \E queue \in Names : PairQueueExists(queue)

PairNext == PairPutStep \/ PairGetStep \/ PairDeleteStep \/ PairQueueExistsStep

SpecPair == InitPair /\ [][PairNext]_vars

-----------------------------------------------------------------------------
(* Claims checked under SpecPair *)

\* C11: the two backends implement the operations identically: built from
\* the same allow-list and given the same calls from empty, each call
\* returns the same result on both.
C11_BackendsAgree ==
    last.op # "none" => last.result.durable = last.result.volatile

-----------------------------------------------------------------------------
(* handlers.rs on AppDb: the request handlers of the server binary, with    *)
(* one SQLite connection behind a Mutex and timestamps kept as RFC 3339     *)
(* text.  `pool` holds the thread that has locked the connection, `lock`    *)
(* the thread whose statement is inside its write transaction.              *)

\* DateTime::to_rfc3339 and parse_from_rfc3339: the text carries the whole
\* seconds and the fraction, here the milliseconds and the rest
to_rfc3339(d) == <<d.millis, d.nanos>>
parse_from_rfc3339(text) == DT(text[1], text[2])

\* SQL NULL, bound for an absent secondary timestamp
SqlNull == <<>>

\* comparison of two RFC 3339 texts of one offset, character by character
TextLt(a, b) == a[1] < b[1] \/ (a[1] = b[1] /\ a[2] < b[2])

\* ORDER BY datetime ASC, datetime_secondary ASC on TEXT columns (NULL first)
TextRowLt(r1, r2) ==
    \/ TextLt(r1.datetime, r2.datetime)
    \/ /\ r1.datetime = r2.datetime
       /\ r2.datetime_secondary # SqlNull
       /\ \/ r1.datetime_secondary = SqlNull
          \/ TextLt(r1.datetime_secondary, r2.datetime_secondary)

\* the body of an error response: <Error><Code>code</Code>...</Error>
XmlError(code) == [content_type |-> "text/xml", code |-> code]

\* the responses of the handlers: status and, for a served item, its JSON;
\* HttpBadRequest and HttpForbidden are the answers to a queue name that is
\* not in db.queues, HttpBadRequestBody the answer to a body that does not
\* parse
HttpOk(item) == [tag |-> "200 OK", item |-> item]
HttpNoContent == [tag |-> "204 No Content", item |-> None]
HttpBadRequest ==
    [tag |-> "400 Bad Request", item |-> None, error |-> XmlError("InvalidQueueName")]
HttpBadRequestBody ==
    [tag |-> "400 Bad Request", item |-> None, error |-> XmlError("InvalidRequest")]
HttpForbidden ==
    [tag |-> "403 Forbidden", item |-> None, error |-> XmlError("InvalidQueueName")]
HttpConflict == [tag |-> "409 Conflict", item |-> None]
HttpInternalServerError(item) == [tag |-> "500 Internal Server Error", item |-> item]

\* AppDb::new: one table per configured name, found by SQLite under its
\* case-folded identifier, and three maps of statements built on the table
\* names, which the handlers never read
AppDbNew(cfg) ==
    LET names == {cfg[i] : i \in 1..Len(cfg)}
        built == [q \in names |-> sanitize_queue_name(q)[1]]
    IN  [ok |-> \A q \in names : sanitize_queue_name(q) # None,
         queues |-> names,
         sqls |-> [get |-> built, put |-> built, delete |-> built],
         db |-> [t \in {sqlite_identifier(sanitize_queue_name(q)[1]) : q \in names}
                    |-> {}]]

InitHandlers ==
    \E c \in Configs :
        /\ AppDbNew(c).ok
        /\ backend = "appdb"
        /\ config = c
        /\ queues = AppDbNew(c).queues
        /\ sqls = AppDbNew(c).sqls
        /\ db = AppDbNew(c).db
        /\ mem = <<>>
        /\ last = NoCall
        /\ hist = <<>>
        /\ phase = "seq"
        /\ pc = [t \in Threads |-> "idle"]
        /\ call = [t \in Threads |-> [op |-> "none", queue |-> <<>>, item |-> None]]
        /\ sel = [t \in Threads |-> {}]
        /\ ret = [t \in Threads |-> HttpNoContent]
        /\ lock = {}
        /\ pool = {}
        /\ atSpawn = <<>>

\* the table the handlers format into their statements
HandlerTable(queue) == sqlite_identifier(sanitize_queue_name(queue)[1])

\* the QueueItem the handlers build from a row
HandlerItem(row) ==
    [datetime |-> parse_from_rfc3339(row.datetime),
     datetime_secondary |->
        IF row.datetime_secondary = SqlNull THEN None
        ELSE Some(parse_from_rfc3339(row.datetime_secondary)),
     message |-> row.message]

\* SELECT ... WHERE valid = 1 ORDER BY datetime ASC, datetime_secondary ASC
\* LIMIT 1 of get_item and delete_item
HandlerSelectFirst(rows) ==
    LET valid == {r \in rows : r.valid = 1}
        first == {r \in valid : \A o \in valid : ~TextRowLt(o, r)}
    IN  IF first = {} THEN {} ELSE {CHOOSE r \in first : TRUE}

\* UPDATE t SET valid = 0 WHERE (datetime = ?1) AND (datetime_secondary IS ?2)
HandlerUpdateMatches(rows, selected) ==
    {r \in rows : \E s \in selected :
        r.datetime = s.datetime /\ r.datetime_secondary = s.datetime_secondary}

\* handlers::put_item by the only caller there is before the threads start:
\* allow-list, the existence count, then the INSERT, which the NOT NULL
\* constraint of datetime_secondary refuses for an absent secondary
HandlerPut(queue, item) ==
    /\ phase = "seq"
    /\ LET secondary == IF item.datetime_secondary = None THEN SqlNull
                        ELSE to_rfc3339(item.datetime_secondary[1])
           row == [datetime |-> to_rfc3339(item.datetime),
                   datetime_secondary |-> secondary,
                   message |-> item.message, valid |-> 1]
       IN  IF queue \notin queues
           THEN /\ last' = [op |-> "put", queue |-> queue, item |-> Some(item),
                            result |-> HttpForbidden, replaced |-> None]
                /\ UNCHANGED db
           ELSE IF \E r \in db[HandlerTable(queue)] :
                      /\ r.datetime = row.datetime
                      /\ r.datetime_secondary = row.datetime_secondary
           THEN /\ last' = [op |-> "put", queue |-> queue, item |-> Some(item),
                            result |-> HttpConflict, replaced |-> None]
                /\ UNCHANGED db
           ELSE IF secondary = SqlNull
           THEN /\ last' = [op |-> "put", queue |-> queue, item |-> Some(item),
                            result |-> HttpInternalServerError(None),
                            replaced |-> None]
                /\ UNCHANGED db
           ELSE /\ StoredIn(db, <<>>) < MaxStored
                /\ db' = [db EXCEPT ![HandlerTable(queue)] = @ \cup {row}]
                /\ last' = [op |-> "put", queue |-> queue, item |-> Some(item),
                            result |-> HttpOk(None), replaced |-> None]
    /\ UNCHANGED <<setupVars, mem, hist, phase, threadVars>>

\* n requests DELETE /queue are accepted, each served on its own thread
HandlerSpawn(queue, n) ==
    /\ phase = "seq"
    /\ phase' = "conc"
    /\ atSpawn' = [queue |-> queue, callers |-> 1..n,
                   items |-> IF queue \in queues
                             THEN {HandlerItem(r) :
                                     r \in {x \in db[HandlerTable(queue)] : x.valid = 1}}
                             ELSE {}]
    /\ pc' = [t \in Threads |-> IF t <= n THEN "start" ELSE "idle"]
    /\ call' = [t \in Threads |->
                  IF t <= n THEN [op |-> "delete", queue |-> queue, item |-> None]
                  ELSE call[t]]
    /\ UNCHANGED <<setupVars, storeVars, last, hist, sel, ret, lock, pool>>

\* handlers::delete_item up to db.conn.lock(): the allow-list check, then the
\* wait for the Mutex of the connection
HandlerEnter(t) ==
    /\ pc[t] = "start"
    /\ IF call[t].queue \notin queues
       THEN /\ ret' = [ret EXCEPT ![t] = HttpBadRequest]
            /\ pc' = [pc EXCEPT ![t] = "done"]
            /\ UNCHANGED pool
       ELSE /\ pool = {}
            /\ pool' = {t}
            /\ pc' = [pc EXCEPT ![t] = "select"]
            /\ UNCHANGED ret
    /\ UNCHANGED <<setupVars, storeVars, last, hist, phase, call, sel, lock, atSpawn>>

\* handlers::delete_item, first statement: the SELECT of the first valid row
HandlerSelect(t) ==
    /\ pc[t] = "select"
    /\ LET selected == HandlerSelectFirst(db[HandlerTable(call[t].queue)])
       IN  /\ sel' = [sel EXCEPT ![t] = selected]
           /\ IF selected = {}
              THEN /\ ret' = [ret EXCEPT ![t] = HttpNoContent]
                   /\ pc' = [pc EXCEPT ![t] = "return"]
              ELSE /\ pc' = [pc EXCEPT ![t] = "update"]
                   /\ UNCHANGED ret
    /\ UNCHANGED <<setupVars, storeVars, last, hist, phase, call, lock, pool, atSpawn>>

\* handlers::delete_item, second statement: the UPDATE of the row found, in
\* its own write transaction
HandlerUpdate(t) ==
    /\ pc[t] = "update"
    /\ LET table == HandlerTable(call[t].queue)
           updated == HandlerUpdateMatches(db[table], sel[t])
           item == HandlerItem(CHOOSE r \in sel[t] : TRUE)
       IN  /\ db' = [db EXCEPT ![table] =
                        {IF r \in updated THEN [r EXCEPT !.valid = 0] ELSE r
                            : r \in @}]
           /\ ret' = [ret EXCEPT ![t] =
                        IF updated # {} THEN HttpOk(Some(item))
                        ELSE HttpInternalServerError(Some(item))]
    /\ pc' = [pc EXCEPT ![t] = "return"]
    /\ UNCHANGED <<setupVars, mem, last, hist, phase, call, sel, lock, pool, atSpawn>>

\* handlers::delete_item returns: the guard of the connection is dropped
HandlerReturn(t) ==
    /\ pc[t] = "return"
    /\ pool' = pool \ {t}
    /\ pc' = [pc EXCEPT ![t] = "done"]
    /\ UNCHANGED <<setupVars, storeVars, last, hist, phase, call, sel, ret, lock,
                   atSpawn>>

HandlerPutStep == \E queue \in Names, item \in QueueItems : HandlerPut(queue, item)
HandlerSpawnStep == \E queue \in Names, n \in Threads : HandlerSpawn(queue, n)
HandlerEnterStep == \E t \in Threads : HandlerEnter(t)
HandlerSelectStep == \E t \in Threads : HandlerSelect(t)
HandlerUpdateStep == \E t \in Threads : HandlerUpdate(t)
HandlerReturnStep == \E t \in Threads : HandlerReturn(t)

HandlersNext ==
    \/ HandlerPutStep
    \/ HandlerSpawnStep
    \/ HandlerEnterStep
    \/ HandlerSelectStep
    \/ HandlerUpdateStep
    \/ HandlerReturnStep

SpecHandlers == InitHandlers /\ [][HandlersNext]_vars

-----------------------------------------------------------------------------
(* Claims checked under SpecHandlers *)

\* the dequeue of thread t has a row it selected in a statement that is over
\* (it is outside the statement's transaction) and has not invalidated it yet
SelectedNotInvalidated(t) ==
    /\ pc[t] = "update"
    /\ sel[t] # {}
    /\ t \notin lock

\* another operation on the same queue has been started and has not returned
OtherExecuting(t) ==
    \E u \in Threads \ {t} :
        pc[u] \notin {"idle", "done"} /\ call[u].queue = call[t].queue

\* C12: on the durable backend delete is one atomic statement: there is no
\* state in which a dequeue has selected a row and not yet invalidated it
\* while another operation on the same queue executes; no dequeue is a
\* separate select followed by a separate update.
C12_DeleteSingleStatement ==
    backend # "memory"
    => \A t \in Threads : ~(SelectedNotInvalidated(t) /\ OtherExecuting(t))

-----------------------------------------------------------------------------
(* Further claims checked under Spec *)

\* the rows of the queue's table: those delete has marked, and the others
Tombstones(queue) == {r \in db[TableOf(sqls.get, queue)] : r.valid = 0}
ValidRows(queue) == {r \in db[TableOf(sqls.get, queue)] : r.valid = 1}

\* C13: on the durable backend a tombstoned row is never returned by get or
\* delete and never decides which item is the minimum: both return the
\* least of the valid rows, or empty when there is none, whatever
\* tombstones the table retains.
C13_TombstonesExcluded ==
    backend = "sqlite" =>
    \A q \in ConfigNames :
        LET g == get_item(q).result
            d == delete_item(q).result
        IN  /\ d = g
            /\ \A r \in Tombstones(q) : g # Ok(Some(DecodeRow(r)))
            /\ IF ValidRows(q) = {}
               THEN g = Ok(None)
               ELSE \E r \in ValidRows(q) :
                      /\ g = Ok(Some(DecodeRow(r)))
                      /\ \A o \in ValidRows(q) :
                            o = r \/ SpecKeyLess(DecodeRow(r), DecodeRow(o))

\* a get has returned an item although the table retains a tombstone of a
\* smaller key
C13_Witness ==
    /\ backend = "sqlite"
    /\ last.op = "get"
    /\ last.queue \in ConfigNames
    /\ last.result.item # None
    /\ \E r \in Tombstones(last.queue) :
          SpecKeyLess(DecodeRow(r), last.result.item[1])

\* C14: a queue never holds two active items with equal (primary,
\* secondary) keys, on either backend, whatever puts and deletes came before.
C14_UniqueActiveKeys ==
    \A q \in ConfigNames :
        /\ \A x, y \in ActiveItems(q) : KeyOf(x) = KeyOf(y) => x = y
        /\ backend = "sqlite" =>
              \A r, o \in ValidRows(q) :
                  (r.datetime = o.datetime
                   /\ r.datetime_secondary = o.datetime_secondary) => r = o

\* a put has just landed on a key that was active with another payload, in a
\* queue that holds as much as it may
C14_Witness ==
    /\ last.op = "put"
    /\ last.replaced # None
    /\ last.replaced[1] # last.item[1].message
    /\ Cardinality(ActiveItems(last.queue)) = MaxStored

-----------------------------------------------------------------------------
(* Concurrent callers of all three operations *)

\* the items the concurrent puts carry: keys the queue may hold already,
\* with another payload
CallItems == {i \in QueueItems : i.message = "" /\ i.datetime_secondary = None}

\* the calls a thread may be given
Calls(queue) ==
    {[op |-> "get", queue |-> queue, item |-> None],
     [op |-> "delete", queue |-> queue, item |-> None]}
    \cup {[op |-> "put", queue |-> queue, item |-> Some(i)] : i \in CallItems}

\* the threads that are given a call: one, or two at the same time
CallThreads == {t \in Threads : t <= 2}

\* threads are started, each with one call on the same queue
SpawnCalls(queue, n, given) ==
    /\ phase = "seq"
    /\ phase' = "conc"
    /\ atSpawn' = [queue |-> queue, items |-> ActiveItems(queue), callers |-> 1..n]
    /\ pc' = [t \in Threads |-> IF t <= n THEN "start" ELSE "idle"]
    /\ call' = [t \in Threads |-> IF t <= n THEN given[t] ELSE call[t]]
    /\ UNCHANGED <<setupVars, storeVars, last, hist, sel, ret, lock, pool>>

SpawnCallsStep ==
    \E queue \in Names, n \in CallThreads :
        \E given \in [1..n -> Calls(queue)] : SpawnCalls(queue, n, given)

CallsNext ==
    \/ FillStep
    \/ SpawnCallsStep
    \/ EnterStep
    \/ BeginStep
    \/ BusyStep
    \/ SelectStep
    \/ UpdateStep
    \/ ReturnStep

SpecCalls == Init /\ [][CallsNext]_vars

-----------------------------------------------------------------------------
(* Claims checked under SpecCalls *)

\* what the call of thread t does when it runs alone in the current state
CallWhole(t) ==
    IF call[t].op = "put" THEN put_item(call[t].queue, call[t].item[1])
    ELSE IF call[t].op = "get" THEN get_item(call[t].queue)
    ELSE delete_item(call[t].queue)

\* the step of thread t applies the whole effect of its call on queue q and
\* hands out its result
WholeEffect(t, q) ==
    IF call[t].op = "put"
    THEN /\ ret'[t] = Ok(None)
         /\ Resolved(call[t].item[1]) \in ActiveItems(q)'
         /\ \A x \in ActiveItems(q)' :
                x = Resolved(call[t].item[1]) \/ x \in ActiveItems(q)
         /\ \A x \in ActiveItems(q) :
                KeyOf(x) = KeyOf(Resolved(call[t].item[1])) \/ x \in ActiveItems(q)'
    ELSE IF call[t].op = "get"
    THEN /\ StoreUnchanged
         /\ IF ActiveItems(q) = {} THEN ret'[t] = Ok(None)
            ELSE \E x \in ActiveItems(q) : ret'[t] = Ok(Some(x))
    ELSE IF ActiveItems(q) = {}
         THEN StoreUnchanged /\ ret'[t] = Ok(None)
         ELSE \E x \in ActiveItems(q) :
                /\ ret'[t] = Ok(Some(x))
                /\ ActiveItems(q)' = ActiveItems(q) \ {x}

\* C15: every put, get and delete is atomic.  A step of a call either
\* changes nothing and decides nothing, or fails the call before it has
\* changed anything, or applies the whole effect of the call and fixes its
\* result at once, exactly as the call does when it runs alone in that
\* state; so a call that returns an error has changed nothing, a call that
\* succeeds has applied everything, and what a concurrent call observes is
\* a state between whole calls.
C15_CallsAtomic ==
    [][\A t \in Threads, q \in Names :
        (phase = "conc" /\ pc'[t] # pc[t] /\ call[t].queue = q)
        => \/ StoreUnchanged /\ ret'[t] = ret[t]
           \/ /\ StoreUnchanged
              /\ pc[t] \in {"start", "begin"}
              /\ pc'[t] \in {"return", "done"}
              /\ ret'[t].tag # "Ok"
           \/ /\ pc[t] \in {"select", "update"}
              /\ pc'[t] = "return"
              /\ ret'[t] = CallWhole(t).result
              /\ db' = CallWhole(t).db
              /\ mem' = CallWhole(t).mem
              /\ WholeEffect(t, q)
      ]_vars

\* a put has failed on the locked database while the delete that held the
\* lock has taken an item out, and the put has left nothing behind
C15_Witness ==
    /\ phase = "conc"
    /\ \E t, u \in atSpawn.callers :
          /\ pc[t] = "done" /\ pc[u] = "done"
          /\ call[t].op = "put" /\ ret[t] = DatabaseError
          /\ call[u].op = "delete" /\ ret[u].item # None
          /\ ActiveItems(atSpawn.queue) = atSpawn.items \ {ret[u].item[1]}

-----------------------------------------------------------------------------
(* Crash and restart of the process *)

\* the backend built at the restart: SqliteStorage on the database file the
\* crashed process left, InMemoryStorage from nothing
RestartStorage(b, cfg) ==
    IF b = "sqlite" THEN SqliteNewOn(cfg, db) ELSE InMemoryNew(cfg)

\* the process dies with its threads wherever they are and is started again
\* with the same configuration; every statement runs in its own transaction
\* on a connection with synchronous = FULL, so the file holds what the
\* statements that finished have written, and nothing of a statement that
\* has not.  A caller that had returned stays "done"; one that was killed on
\* its way back, its statement finished, is "killed returning"; call and ret
\* keep what each of them had got.
Crash ==
    /\ phase = "conc"
    /\ RestartStorage(backend, config).ok
    /\ phase' = "restarted"
    /\ queues' = RestartStorage(backend, config).queues
    /\ sqls' = RestartStorage(backend, config).sqls
    /\ db' = RestartStorage(backend, config).db
    /\ mem' = RestartStorage(backend, config).mem
    /\ lock' = {}
    /\ pool' = {}
    /\ pc' = [t \in Threads |->
                IF pc[t] \in {"idle", "done"} THEN pc[t]
                ELSE IF pc[t] = "return" THEN "killed returning"
                ELSE "killed"]
    /\ UNCHANGED <<backend, config, last, hist, call, sel, ret, atSpawn>>

RestartNext == CallsNext \/ Crash

SpecRestart == Init /\ [][RestartNext]_vars

-----------------------------------------------------------------------------
(* Claims checked under SpecRestart *)

\* the puts that were acknowledged before the crash
Acknowledged ==
    {t \in atSpawn.callers :
        call[t].op = "put" /\ pc[t] = "done" /\ ret[t] = Ok(None)}

\* the puts that wrote their row before the crash
Written ==
    {t \in atSpawn.callers :
        call[t].op = "put" /\ pc[t] \in {"killed returning", "done"}
        /\ ret[t] = Ok(None)}

\* the items the deletes took out before the crash
TakenOut ==
    {ret[u].item[1] : u \in {t \in atSpawn.callers :
        call[t].op = "delete" /\ pc[t] \in {"killed returning", "done"}
        /\ ret[t].tag = "Ok" /\ ret[t].item # None}}

-----------------------------------------------------------------------------
(* Queue names and the construction of a backend from any configuration *)

\* the longest name tried
MaxNameLen == 2

\* characters outside [A-Za-z0-9_]: the ones the tests of sanitize_queue_name
\* try, a letter and a digit that are not ASCII (e with acute accent,
\* Arabic-Indic digit three); a character is a one-element token here
Punctuation == {"-", " ", "!", "$"}
NonAsciiLetters == {"U+00E9"}
NonAsciiDigits == {"U+0663"}
NameChars ==
    LowerCase \cup UpperCase \cup Digits \cup {"_"}
    \cup Punctuation \cup NonAsciiLetters \cup NonAsciiDigits

\* every name of up to MaxNameLen characters, the empty one included
NameInputs == UNION {[1..n -> NameChars] : n \in 0..MaxNameLen}

\* config.queues: one name, or a valid name and another one
ConfigInputs == {<<n>> : n \in NameInputs} \cup {<<qa, n>> : n \in NameInputs}

\* the state before a backend is constructed
InitNames ==
    \E b \in Backends, c \in ConfigInputs :
        /\ backend = b
        /\ config = c
        /\ queues = {}
        /\ sqls = [get |-> <<>>, put |-> <<>>, delete |-> <<>>]
        /\ db = <<>>
        /\ mem = <<>>
        /\ last = NoCall
        /\ hist = <<>>
        /\ phase = "new"
        /\ pc = [t \in Threads |-> "idle"]
        /\ call = [t \in Threads |-> [op |-> "none", queue |-> <<>>, item |-> None]]
        /\ sel = [t \in Threads |-> None]
        /\ ret = [t \in Threads |-> Ok(None)]
        /\ lock = {}
        /\ pool = {}
        /\ atSpawn = <<>>

\* sanitize_queue_name is applied to a name of the configuration
Sanitize(queue) ==
    /\ queue \in ConfigNames
    /\ last' = [op |-> "sanitize_queue_name", queue |-> queue, item |-> None,
                result |-> sanitize_queue_name(queue), replaced |-> None]
    /\ UNCHANGED <<setupVars, storeVars, hist, phase, threadVars>>

\* SqliteStorage::new / InMemoryStorage::new on the configuration
New ==
    /\ phase = "new"
    /\ phase' = IF NewStorage(backend, config).ok THEN "seq" ELSE "failed"
    /\ queues' = NewStorage(backend, config).queues
    /\ sqls' = NewStorage(backend, config).sqls
    /\ db' = NewStorage(backend, config).db
    /\ mem' = NewStorage(backend, config).mem
    /\ UNCHANGED <<backend, config, last, hist, threadVars>>

SanitizeStep == \E queue \in NameInputs : Sanitize(queue)
NamedQueueExistsStep == \E queue \in ConfigNames \cup Names : QueueExists(queue)

NamesNext == SanitizeStep \/ New \/ NamedQueueExistsStep

SpecNames == InitNames /\ [][NamesNext]_vars

-----------------------------------------------------------------------------
(* Claims checked under SpecNames *)

QueuePrefix == <<"q", "u", "e", "u", "e", "_">>

\* letters and digits of any script
Letters == LowerCase \cup UpperCase \cup NonAsciiLetters
AnyDigits == Digits \cup NonAsciiDigits

\* sanitize_queue_name has given its answer on a name: accepted names, and
\* only they, get "queue_" followed by the whole name, the others get None
SanitizeAnswers(accepted) ==
    last.op = "sanitize_queue_name"
    => /\ (last.result # None) = accepted
       /\ accepted => last.result = Some(QueuePrefix \o last.queue)
       /\ ~accepted => last.result = None

\* C17 as stated: a name is accepted if and only if it is non-empty and
\* every character is a letter, a digit or an underscore; an accepted name
\* maps to "queue_" followed by the unchanged name, any other to None.
C17_SanitizeIff ==
    SanitizeAnswers(/\ last.queue # <<>>
                    /\ \A i \in 1..Len(last.queue) :
                          last.queue[i] \in Letters \cup AnyDigits \cup {"_"})

\* C17, amended: a name is accepted if and only if it is non-empty and
\* every character is an ASCII letter, an ASCII digit or an underscore
\* (letters and digits outside ASCII are rejected like a hyphen, a space,
\* '!' or '$'); an accepted name maps to "queue_" followed by the unchanged
\* name, any other to None.
C17_SanitizeIffAscii ==
    SanitizeAnswers(/\ last.queue # <<>>
                    /\ \A i \in 1..Len(last.queue) :
                          last.queue[i] \in LowerCase \cup UpperCase \cup Digits \cup {"_"})

\* a name with a letter that is not ASCII has been rejected
C17_Witness ==
    /\ last.op = "sanitize_queue_name"
    /\ Len(last.queue) = MaxNameLen
    /\ \E i \in 1..Len(last.queue) : last.queue[i] \in NonAsciiLetters
    /\ \A i \in 1..Len(last.queue) : last.queue[i] \in Letters
    /\ last.result = None

\* C18: every queue name a successfully constructed backend answers
\* queue_exists with true for is a name sanitize_queue_name accepts; no
\* configuration with a rejected name yields a backend that serves it.
C18_ServedNamesSanitized ==
    phase = "seq"
    => \A queue \in ConfigNames \cup Names :
          queue_exists(queue) => sanitize_queue_name(queue) # None

-----------------------------------------------------------------------------
(* QueueItem as JSON *)

\* timestamps with whole seconds, milliseconds, microseconds and nanoseconds
JsonTimes == {DT(0, 0), DT(0, 1), DT(0, 1000), DT(1, 0), DT(1000, 0), DT(1001, 1001)}
JsonSecondaryTimes == {None} \cup {Some(d) : d \in JsonTimes}
JsonItems ==
    {[datetime |-> d, datetime_secondary |-> s, message |-> m] :
        d \in JsonTimes, s \in JsonSecondaryTimes, m \in Messages}

Pow10(k) == IF k = 0 THEN 1 ELSE IF k = 3 THEN 1000 ELSE IF k = 6 THEN 1000000 ELSE 1000000000

\* the nanoseconds of a timestamp within its second
subsec_nanos(d) == (d.millis % 1000) * 1000000 + d.nanos

\* chrono's Serialize for DateTime<Utc>: RFC 3339 with SecondsFormat::AutoSi,
\* that is with no fraction, or 3, 6 or 9 digits of it, as many as it takes
\* to write the timestamp exactly
serialize_datetime(d) ==
    LET n == subsec_nanos(d)
        digits == IF n = 0 THEN 0
                  ELSE IF n % 1000000 = 0 THEN 3
                  ELSE IF n % 1000 = 0 THEN 6
                  ELSE 9
    IN  [secs |-> d.millis \div 1000, digits |-> digits,
         frac |-> n \div Pow10(9 - digits)]

\* chrono's Deserialize for DateTime<Utc>: the fraction is read at the
\* number of digits it was written with
deserialize_datetime(text) ==
    LET n == text.frac * Pow10(9 - text.digits)
    IN  DT(text.secs * 1000 + n \div 1000000, n % 1000000)

JsonError == [tag |-> "serde_json::Error", item |-> None]

\* QueueItem::to_json_string: datetime_secondary is skipped if it is None,
\* message is skipped if it is empty
to_json_string(item) ==
    LET fields == {"datetime"}
                  \cup (IF item.datetime_secondary = None THEN {}
                        ELSE {"datetime_secondary"})
                  \cup (IF item.message = "" THEN {} ELSE {"message"})
    IN  Ok([k \in fields |->
               IF k = "datetime" THEN serialize_datetime(item.datetime)
               ELSE IF k = "datetime_secondary"
               THEN serialize_datetime(item.datetime_secondary[1])
               ELSE item.message])

\* mutant: message without #[serde(default)]
from_json_string_no_default(json) ==
    IF {"datetime", "message"} \subseteq DOMAIN json
    THEN Ok([datetime |-> deserialize_datetime(json["datetime"]),
             datetime_secondary |->
                 IF "datetime_secondary" \in DOMAIN json
                 THEN Some(deserialize_datetime(json["datetime_secondary"]))
                 ELSE None,
             message |-> json["message"]])
    ELSE JsonError

\* mutant: datetime with #[serde(default)], a missing one is the epoch
from_json_string_default_datetime(json) ==
    Ok([datetime |-> IF "datetime" \in DOMAIN json
                     THEN deserialize_datetime(json["datetime"]) ELSE DT(0, 0),
        datetime_secondary |->
            IF "datetime_secondary" \in DOMAIN json
            THEN Some(deserialize_datetime(json["datetime_secondary"]))
            ELSE None,
        message |-> IF "message" \in DOMAIN json THEN json["message"] ELSE ""])

\* QueueItem::from_json_string: datetime is required, a missing
\* datetime_secondary is None, a missing message is the default (empty)
from_json_string(json) ==
    IF "datetime" \in DOMAIN json
    THEN Ok([datetime |-> deserialize_datetime(json["datetime"]),
             datetime_secondary |->
                 IF "datetime_secondary" \in DOMAIN json
                 THEN Some(deserialize_datetime(json["datetime_secondary"]))
                 ELSE None,
             message |-> IF "message" \in DOMAIN json THEN json["message"] ELSE ""])
    ELSE JsonError

\* an item, before anything is done with it
InitJson ==
    \E i \in JsonItems :
        /\ backend = "none"
        /\ config = <<>>
        /\ queues = {}
        /\ sqls = [get |-> <<>>, put |-> <<>>, delete |-> <<>>]
        /\ db = <<>>
        /\ mem = <<>>
        /\ last = [op |-> "new", queue |-> <<>>, item |-> Some(i),
                   result |-> Ok(None), replaced |-> None]
        /\ hist = <<>>
        /\ phase = "json"
        /\ pc = [t \in Threads |-> "idle"]
        /\ call = [t \in Threads |-> [op |-> "none", queue |-> <<>>, item |-> None]]
        /\ sel = [t \in Threads |-> None]
        /\ ret = [t \in Threads |-> Ok(None)]
        /\ lock = {}
        /\ pool = {}
        /\ atSpawn = <<>>

\* item.to_json_string()
ToJson ==
    /\ phase = "json"
    /\ last.op = "new"
    /\ last' = [last EXCEPT !.op = "to_json_string",
                            !.result = to_json_string(last.item[1])]
    /\ UNCHANGED <<setupVars, storeVars, hist, phase, threadVars>>

\* QueueItem::from_json_string(&json) on the string just written
FromJson ==
    /\ phase = "json"
    /\ last.op = "to_json_string"
    /\ last.result.tag = "Ok"
    /\ last' = [last EXCEPT !.op = "from_json_string",
                            !.result = from_json_string(last.result.item)]
    /\ UNCHANGED <<setupVars, storeVars, hist, phase, threadVars>>

JsonNext == ToJson \/ FromJson

SpecJson == InitJson /\ [][JsonNext]_vars

-----------------------------------------------------------------------------
(* Claims checked under SpecJson *)

\* C19: serializing an item and deserializing the result succeeds and gives
\* an item with the same primary timestamp, the same secondary timestamp
\* (absent stays absent) and the same message; an empty message is left out
\* of the JSON and comes back as the empty message.
C19_JsonRoundTrip ==
    /\ last.op = "to_json_string"
       => /\ last.result.tag = "Ok"
          /\ ("message" \in DOMAIN last.result.item) = (last.item[1].message # "")
    /\ last.op = "from_json_string"
       => /\ last.result.tag = "Ok"
          /\ last.result.item.datetime = last.item[1].datetime
          /\ last.result.item.datetime_secondary = last.item[1].datetime_secondary
          /\ last.result.item.message = last.item[1].message

\* an item with nanoseconds in its primary timestamp, microseconds in its
\* secondary one and an empty message has come back from its JSON
C19_Witness ==
    /\ last.op = "from_json_string"
    /\ last.item[1] = [datetime |-> DT(1001, 1001),
                       datetime_secondary |-> Some(DT(0, 1000)),
                       message |-> ""]
    /\ last.result = Ok(last.item[1])

-----------------------------------------------------------------------------
(* Secondary timestamps down to the least one *)

\* DateTime::<Utc>::MIN_UTC, the least timestamp chrono represents.  Its
\* timestamp_millis() is -8334601228800000, about i64::MIN / 1107; the
\* model keeps that proportion to its own I64_MIN.
MIN_UTC == DT(I64_MIN \div 1107, 0)

\* absent, the least timestamp, one before the epoch, the epoch, and two
\* within the same millisecond
SentinelSecondaryTimes ==
    {None, Some(MIN_UTC), Some(DT(-1, 0)), Some(DT(0, 0)), Some(DT(0, 1))}
SentinelItems ==
    {[datetime |-> d, datetime_secondary |-> s, message |-> ""] :
        d \in {DT(0, 0), DT(1, 0)}, s \in SentinelSecondaryTimes}

SentinelPutStep == \E queue \in Names, item \in SentinelItems : Put(queue, item)

SentinelNext == SentinelPutStep \/ GetStep \/ DeleteStep

SpecSentinel == Init /\ [][SentinelNext]_vars

-----------------------------------------------------------------------------
(* Claims checked under SpecSentinel *)

\* the rows of the table of the queue the last call was on
LastRows == db[TableOf(sqls.get, last.queue)]

\* C20: on the durable backend a put stores an absent secondary timestamp as
\* the sentinel (the least 64-bit integer) and a present one as an integer
\* strictly above the sentinel, never as the sentinel; a get or delete
\* decodes the sentinel, and nothing else, as absent; and the order of the
\* stored integers is the order of the keys, absent first.
C20_SentinelEncoding ==
    backend = "sqlite"
    => /\ (last.op = "put" /\ last.result = Ok(None))
          => \E r \in LastRows :
                /\ r.valid = 1
                /\ r.datetime = timestamp_millis(last.item[1].datetime)
                /\ (r.datetime_secondary = I64_MIN)
                   = (last.item[1].datetime_secondary = None)
                /\ last.item[1].datetime_secondary # None
                   => /\ r.datetime_secondary
                         = timestamp_millis(last.item[1].datetime_secondary[1])
                      /\ I64_MIN < r.datetime_secondary
       /\ (last.op \in {"get", "delete"} /\ last.result.tag = "Ok"
           /\ last.result.item # None)
          => \E r \in LastRows :
                /\ r.datetime = timestamp_millis(last.result.item[1].datetime)
                /\ (last.result.item[1].datetime_secondary = None)
                   = (r.datetime_secondary = I64_MIN)
                /\ last.result.item[1].datetime_secondary # None
                   => r.datetime_secondary
                      = timestamp_millis(last.result.item[1].datetime_secondary[1])
       /\ \A t \in DOMAIN db : \A r1, r2 \in db[t] :
             RowLt(r1, r2) = KeyLt(KeyOf(DecodeRow(r1)), KeyOf(DecodeRow(r2)))

\* the queue holds an item without secondary timestamp and one with the
\* least secondary timestamp there is, under the same primary timestamp, and
\* a get has returned the one without
C20_Witness ==
    /\ backend = "sqlite"
    /\ last.op = "get"
    /\ last.result.tag = "Ok"
    /\ last.result.item # None
    /\ last.result.item[1].datetime_secondary = None
    /\ \E x \in ActiveItems(last.queue) :
          /\ x.datetime = last.result.item[1].datetime
          /\ x.datetime_secondary = Some(MIN_UTC)

-----------------------------------------------------------------------------
(* handlers.rs, one request at a time *)

\* request bodies: the JSON of an item, a text that is not JSON (it has no
\* member at all), and an object without the primary timestamp
InvalidJson == [k \in {"{invalid_json}"} |-> TRUE]
NoDatetimeJson == [k \in {"message"} |-> "x"]
MalformedBodies == {InvalidJson, NoDatetimeJson}
ItemBodies == {to_json_string(i).item : i \in QueueItems}
Bodies == ItemBodies \cup MalformedBodies

\* handlers::put_item: the allow-list check, the parse of the body, then the
\* existence count and the INSERT
RequestPut(queue, body) ==
    IF from_json_string(body).tag = "Ok"
    THEN HandlerPut(queue, from_json_string(body).item)
    ELSE /\ phase = "seq"
         /\ last' = [op |-> "put", queue |-> queue, item |-> None,
                     result |-> IF queue \notin queues THEN HttpForbidden
                                ELSE HttpBadRequestBody,
                     replaced |-> None]
         /\ UNCHANGED <<setupVars, storeVars, hist, phase, threadVars>>

\* handlers::get_item
RequestGet(queue) ==
    /\ phase = "seq"
    /\ last' = [op |-> "get", queue |-> queue, item |-> None,
                result |->
                   IF queue \notin queues THEN HttpBadRequest
                   ELSE IF HandlerSelectFirst(db[HandlerTable(queue)]) = {}
                   THEN HttpNoContent
                   ELSE HttpOk(Some(HandlerItem(
                           CHOOSE r \in HandlerSelectFirst(db[HandlerTable(queue)]) : TRUE))),
                replaced |-> None]
    /\ UNCHANGED <<setupVars, storeVars, hist, phase, threadVars>>

\* handlers::delete_item with no other request in flight: the SELECT, then
\* the UPDATE of the row found
RequestDelete(queue) ==
    /\ phase = "seq"
    /\ IF queue \notin queues
       THEN /\ last' = [op |-> "delete", queue |-> queue, item |-> None,
                        result |-> HttpBadRequest, replaced |-> None]
            /\ UNCHANGED db
       ELSE LET table == HandlerTable(queue)
                selected == HandlerSelectFirst(db[table])
                updated == HandlerUpdateMatches(db[table], selected)
            IN  IF selected = {}
                THEN /\ last' = [op |-> "delete", queue |-> queue, item |-> None,
                                 result |-> HttpNoContent, replaced |-> None]
                     /\ UNCHANGED db
                ELSE /\ db' = [db EXCEPT ![table] =
                                  {IF r \in updated THEN [r EXCEPT !.valid = 0] ELSE r
                                      : r \in @}]
                     /\ last' = [op |-> "delete", queue |-> queue, item |-> None,
                                 result |->
                                    IF updated # {}
                                    THEN HttpOk(Some(HandlerItem(CHOOSE r \in selected : TRUE)))
                                    ELSE HttpInternalServerError(
                                            Some(HandlerItem(CHOOSE r \in selected : TRUE))),
                                 replaced |-> None]
    /\ UNCHANGED <<setupVars, mem, hist, phase, threadVars>>

RequestPutStep == \E queue \in Names, body \in Bodies : RequestPut(queue, body)
RequestGetStep == \E queue \in Names : RequestGet(queue)
RequestDeleteStep == \E queue \in Names : RequestDelete(queue)

RequestsNext == RequestPutStep \/ RequestGetStep \/ RequestDeleteStep

SpecRequests == InitHandlers /\ [][RequestsNext]_vars

-----------------------------------------------------------------------------
(* Claims checked under SpecRequests *)

\* the active items of a queue of AppDb
HandlerActive(queue) ==
    IF queue \notin queues THEN {}
    ELSE {HandlerItem(r) : r \in {x \in db[HandlerTable(queue)] : x.valid = 1}}

\* the smallest item of a set by the key order
HandlerMinimum(S) == CHOOSE x \in S : \A y \in S : ~KeyLt(KeyOf(y), KeyOf(x))

\* C21: a request on a queue name that is not in the allow-list is answered
\* with 403 Forbidden and a JSON body whose field "code" is
\* InvalidQueueName, and changes no queue state.
C21_UnknownQueueForbidden ==
    [][\A q \in Names :
          (last' # last /\ last'.queue = q /\ q \notin queues)
          => /\ db' = db
             /\ last'.result.tag = "403 Forbidden"
             /\ last'.result.error.content_type = "application/json"
             /\ last'.result.error.code = "InvalidQueueName"
      ]_vars

\* C22: a PUT of an item whose key is active in the queue is answered with
\* 200, not with a conflict, and a GET that follows returns the item with
\* the message of this PUT.
C22_DuplicatePutSucceeds ==
    [][\A q \in Names, i \in QueueItems :
          (/\ RequestPut(q, to_json_string(i).item)
           /\ \E x \in HandlerActive(q) : KeyOf(x) = KeyOf(i))
          => /\ last'.result.tag = "200 OK"
             /\ \E x \in HandlerActive(q)' : KeyOf(x) = KeyOf(i) /\ x.message = i.message
      ]_vars

\* C23: on an allow-listed queue that holds no item with that key, a PUT of
\* a well-formed item, with or without a secondary timestamp, is answered
\* with 200 and the item is active; a GET or DELETE on a queue with active
\* items is answered with 200 and the smallest of them, the DELETE taking it
\* out; on a queue without active items both are answered with 204.
C23_PutGetDeleteStatuses ==
    [][\A q \in Names :
          q \in queues
          => /\ \A i \in QueueItems :
                   (/\ RequestPut(q, to_json_string(i).item)
                    /\ ~\E r \in db[HandlerTable(q)] : KeyOf(HandlerItem(r)) = KeyOf(i))
                   => /\ last'.result = HttpOk(None)
                      /\ i \in HandlerActive(q)'
             /\ RequestGet(q)
                => last'.result = IF HandlerActive(q) = {} THEN HttpNoContent
                                  ELSE HttpOk(Some(HandlerMinimum(HandlerActive(q))))
             /\ RequestDelete(q)
                => /\ last'.result = IF HandlerActive(q) = {} THEN HttpNoContent
                                     ELSE HttpOk(Some(HandlerMinimum(HandlerActive(q))))
                   /\ HandlerActive(q)' = IF HandlerActive(q) = {} THEN {}
                                          ELSE HandlerActive(q) \ {HandlerMinimum(HandlerActive(q))}
      ]_vars

\* C24: a PUT on an allow-listed queue with a body that is no well-formed
\* item (no JSON, or no primary timestamp) is answered with 400 and leaves
\* every queue as it was: nothing is stored, and what GET and DELETE return
\* afterwards is what they returned before.
C24_MalformedPutRejected ==
    [][\A q \in Names, body \in MalformedBodies :
          (RequestPut(q, body) /\ q \in queues)
          => /\ last'.result.tag = "400 Bad Request"
             /\ db' = db
             /\ HandlerActive(q)' = HandlerActive(q)
      ]_vars

\* a body without primary timestamp has been refused on a queue that holds
\* an item
C24_Witness ==
    /\ last.op = "put"
    /\ last.queue \in queues
    /\ last.result = HttpBadRequestBody
    /\ HandlerActive(last.queue) # {}

-----------------------------------------------------------------------------
(* The pool under load *)

\* callers beyond the threads that are followed step by step: each of them
\* is an operation in flight that holds a pooled connection for as long as
\* the threads run
Others == (NThreads + 1)..(NThreads + PoolSize)

\* k of them have passed pool.get() when the threads start: all connections
\* but one, or all of them
Occupy(k) ==
    /\ phase = "seq"
    /\ backend = "sqlite"
    /\ pool = {}
    /\ pool' = (NThreads + 1)..(NThreads + k)
    /\ UNCHANGED <<setupVars, storeVars, last, hist, phase, pc, call, sel, ret, lock,
                   atSpawn>>

OccupyStep == \E k \in {PoolSize - 1, PoolSize} : Occupy(k)

PoolNext == CallsNext \/ OccupyStep

SpecPool == Init /\ [][PoolNext]_vars

-----------------------------------------------------------------------------
(* Claims checked under SpecPool *)

\* the threads whose call has been started and has not returned
InFlight == {t \in Threads : pc[t] \notin {"idle", "done"}}

\* the threads that are past pool.get() and have not returned
PastGet == {t \in Threads : pc[t] \in {"begin", "select", "update", "return"}}

\* C25: on the durable backend a call holds one pooled connection from
\* pool.get() until it returns, on every path, error returns included: the
\* connections checked out are never more than the pool has, the ones
\* checked out by the threads are held by calls in flight, one each, and
\* when no call is in flight none is checked out.
C25_PoolBalanced ==
    backend = "sqlite"
    => /\ Cardinality(pool) <= PoolSize
       /\ pool \subseteq InFlight \cup Others
       /\ pool \cap Threads = PastGet
       /\ Cardinality(pool) <= Cardinality(InFlight) + Cardinality(pool \cap Others)
       /\ InFlight = {} => pool \cap Threads = {}

\* the pool is exhausted: one thread holds the last connection, another has
\* returned an error (no connection to be had, or the database locked) and
\* holds no connection
C25_Witness ==
    /\ backend = "sqlite"
    /\ phase = "conc"
    /\ \E t, u \in Threads :
          /\ ret[t] \in {PoolError, DatabaseError}
          /\ pc[t] = "done"
          /\ t \notin pool
          /\ u \in pool
          /\ Cardinality(pool) = PoolSize

-----------------------------------------------------------------------------
(* Fair scheduling of the threads *)

\* the next step of the call of thread t, whichever it is
ThreadStep(t) ==
    Enter(t) \/ Begin(t) \/ Busy(t) \/ Select(t) \/ Update(t) \/ Return(t)

\* the first queue of the configuration is seeded, the calls are made on
\* any name
FairFillStep == \E item \in FillItems : Fill(config[1], item)

FairNext ==
    \/ FairFillStep
    \/ SpawnCallsStep
    \/ OccupyStep
    \/ EnterStep
    \/ BeginStep
    \/ BusyStep
    \/ SelectStep
    \/ UpdateStep
    \/ ReturnStep

\* the scheduler runs every thread that can take a step; the waits inside
\* the steps are bounded (connection_timeout of the pool, busy_timeout of
\* the connection), so a step that is possible is taken.  Every step of a
\* thread moves its pc.
SpecPoolFair ==
    Init /\ [][FairNext]_vars /\ \A t \in Threads : WF_pc(ThreadStep(t))

-----------------------------------------------------------------------------
(* Claims checked under SpecPoolFair *)

\* C26: under fair scheduling every call that has been accepted returns,
\* however many callers there are: once the callers are started the state
\* in which each of them is done is reached (a thread that was not started
\* stays idle).  On the durable backend a call that
\* finds every pooled connection taken for the whole of the bounded wait
\* returns a pool error; on the volatile backend the holder of the lock
\* waits for nothing else (it holds no connection and each of its steps is
\* on the map in memory alone), so that nobody waits forever.
C26_CallsReturn ==
    /\ (phase = "conc") ~> (\A t \in Threads : pc[t] \in {"idle", "done"})
    /\ [](\A t \in Threads :
            (/\ pc[t] = "done" /\ call[t].queue \in queues /\ phase = "conc"
             /\ Cardinality(pool \cap Others) = PoolSize)
            => ret[t] = PoolError)
    /\ [](backend = "memory"
          => \A t \in lock : t \notin pool /\ pc[t] \in {"select", "update", "return"})

\* every connection is held by another caller and every thread has come back
\* with a pool error
C26_Witness ==
    /\ phase = "conc"
    /\ Cardinality(pool \cap Others) = PoolSize
    /\ Cardinality(atSpawn.callers) > 1
    /\ atSpawn.queue \in queues
    /\ \A t \in atSpawn.callers : pc[t] = "done" /\ ret[t] = PoolError

-----------------------------------------------------------------------------
(* InMemoryStorage: the RwLock, checked under SpecCalls *)

\* the threads inside the critical section of their call: between the return
\* of queues.read() or queues.write() and the drop of the guard
InCritical == {t \in Threads : pc[t] \in {"select", "update", "return"}}

\* the orders in which the calls of the callers can be run one after another
Orders(callers) ==
    {o \in [1..Cardinality(callers) -> callers] :
        \A i, j \in DOMAIN o : o[i] = o[j] => i = j}

\* the items of a queue and the result after one call run alone on the items S
AloneOn(S, c) ==
    IF c.op = "put"
    THEN [items |-> {x \in S : KeyOf(x) # KeyOf(c.item[1])} \cup {c.item[1]},
          result |-> Ok(None)]
    ELSE IF S = {} THEN [items |-> S, result |-> Ok(None)]
    ELSE LET first == CHOOSE x \in S : \A y \in S : ~SpecKeyLess(y, x)
         IN  [items |-> IF c.op = "delete" THEN S \ {first} ELSE S,
              result |-> Ok(Some(first))]

\* the items left after the first n calls of the order o, started on S
RECURSIVE ItemsAfter(_, _, _)
ItemsAfter(S, o, n) ==
    IF n = 0 THEN S ELSE AloneOn(ItemsAfter(S, o, n - 1), call[o[n]]).items

\* the order o explains the execution: each call returned what it returns
\* when run in its place, and the queue is left as the last call leaves it
ExplainedBy(o) ==
    /\ \A n \in DOMAIN o :
        ret[o[n]] = AloneOn(ItemsAfter(atSpawn.items, o, n - 1), call[o[n]]).result
    /\ ActiveItems(atSpawn.queue) = ItemsAfter(atSpawn.items, o, Len(o))

\* C27: on the volatile backend the threads inside their critical sections
\* are those that hold a guard of the lock; a put or a delete inside its
\* critical section is alone there, whatever the other calls on the queue
\* are, and gets may be inside together.  Once the calls have returned,
\* their results and the items left in the queue are those of the same
\* calls run one after another in some order.
C27_WritersExclusive ==
    backend = "memory" =>
       /\ lock = InCritical
       /\ \A t \in InCritical : call[t].op \in {"put", "delete"} => InCritical = {t}
       /\ \A t, u \in InCritical : t # u => call[t].op = "get" /\ call[u].op = "get"
       /\ AllReturned => \E o \in Orders(atSpawn.callers) : ExplainedBy(o)

\* two gets are inside their critical sections at the same time, on a queue
\* that holds an item
C27_Witness ==
    /\ backend = "memory"
    /\ phase = "conc"
    /\ atSpawn.items # {}
    /\ \E t, u \in InCritical :
        /\ t # u
        /\ call[t].op = "get" /\ call[u].op = "get"
        /\ call[t].queue = call[u].queue

-----------------------------------------------------------------------------
(* The statements a request runs *)

\* a statement a call prepares: its SQL text, written as the form of the
\* statement and the table name in it, and whether the text was formatted
\* from the queue name of the call
Statement(form, table, formatted) ==
    [form |-> form, table |-> table, formatted |-> formatted]

\* the statements held since construction
Templates ==
    {Statement(op, sqls[op][q], FALSE) :
        op \in {"get", "put", "delete"}, q \in DOMAIN sqls.get}

\* SqliteStorage: each operation looks its statement up in the map of its
\* operation and prepares that text
StoragePrepared(op, queue) == {Statement(op, sqls[op][queue], FALSE)}

\* the handlers: each statement is formatted on the sanitized queue name of
\* the request
HandlerPrepared(op, queue) ==
    LET table == sanitize_queue_name(queue)[1]
    IN  CASE op = "put" ->
               {Statement("count", table, TRUE), Statement("insert", table, TRUE)}
          [] op = "get" -> {Statement("get", table, TRUE)}
          [] op = "delete" ->
               {Statement("get", table, TRUE), Statement("update", table, TRUE)}

Prepared(op, queue) ==
    IF backend = "appdb" THEN HandlerPrepared(op, queue)
    ELSE StoragePrepared(op, queue)

\* C28: the statements of a queue are built once, when the backend is
\* constructed, from the names of the allow-list; they never change
\* afterwards, and a request on a queue of the allow-list prepares only
\* statements held since construction and touches no table but the one
\* its statement names, so that the name in the request is never put into
\* SQL text.
C28_StatementsPrebuilt ==
    [][/\ sqls' = sqls
       /\ \A q \in Names :
            (/\ backend # "memory"
             /\ last' # last
             /\ last'.queue = q
             /\ q \in queues
             /\ last'.op \in {"get", "put", "delete"})
            => /\ q \in DOMAIN sqls[last'.op]
               /\ Prepared(last'.op, q) \subseteq Templates
               /\ \A t \in DOMAIN db :
                    db'[t] # db[t] => t = TableOf(sqls[last'.op], q)
      ]_vars

-----------------------------------------------------------------------------
(* A put and the get after it: the puts go to one queue, the first of the   *)
(* configuration; gets and deletes are made on any name                     *)

FrontPutStep == \E item \in QueueItems : Put(config[1], item)

FrontNext == FrontPutStep \/ GetStep \/ DeleteStep

SpecFront == Init /\ [][FrontNext]_vars

-----------------------------------------------------------------------------
(* Claims checked under SpecFront *)

\* the step is a put on queue q that succeeded
PutSucceeded(q) ==
    /\ last' # last
    /\ last'.op = "put"
    /\ last'.result = Ok(None)
    /\ last'.queue = q

\* C29 as stated: after a successful put of an item whose key is smaller
\* than or equal to the key of every active item of the queue, the next get
\* returns that item; after a successful put of an item whose key is larger
\* than the current minimum, the result of get is unchanged.
C29_PutThenGet ==
    [][\A q \in Names :
        PutSucceeded(q) =>
          IF \E x \in ActiveItems(q) : SpecKeyLess(x, last'.item[1])
          THEN get_item(q)'.result = get_item(q).result
          ELSE get_item(q)'.result = Ok(last'.item)
      ]_vars

\* C29 with the keys taken at the resolution of the backend: after a
\* successful put of an item whose key, as the backend keeps it (cut to whole
\* milliseconds on the durable backend), is smaller than or equal to the key
\* of every active item of the queue, the next get returns that item as the
\* backend keeps it; after a successful put of an item whose key as the
\* backend keeps it is larger than the current minimum, the result of get is
\* unchanged.
C29_PutThenGetResolved ==
    [][\A q \in Names :
        PutSucceeded(q) =>
          LET r == Resolved(last'.item[1])
          IN  IF \E x \in ActiveItems(q) : SpecKeyLess(x, r)
              THEN get_item(q)'.result = get_item(q).result
              ELSE get_item(q)'.result = Ok(Some(r))
      ]_vars

\* the last call was a put that went in front of an item the queue held:
\* the queue holds two items and get returns the one just put
C29_Witness ==
    /\ last.op = "put"
    /\ last.result = Ok(None)
    /\ Cardinality(ActiveItems(last.queue)) = 2
    /\ get_item(last.queue).result = Ok(Some(Resolved(last.item[1])))

-----------------------------------------------------------------------------
(* What a read hands back: the scenarios of puts into an empty queue and   *)
(* reads after them, with items that differ below the millisecond          *)

ExactPutStep == \E queue \in Names, item \in QueueItems : HPut(queue, item)

ExactNext == ExactPutStep \/ HGetStep \/ HDeleteStep

SpecExact == Init /\ [][ExactNext]_vars

-----------------------------------------------------------------------------
(* Claims checked under SpecExact *)

\* the reads of the scenario that returned an item
HistReturns == {n \in HistReads : hist[n].result.tag = "Ok" /\ hist[n].result.item # None}

\* C30 as stated: the item returned by get or delete is, timestamps at full
\* precision and payload, the item passed to the put that last stored its
\* key, on both backends; and put items whose keys differ, be it only below
\* the millisecond, are separate active items.
C30_ReturnsWhatWasPut ==
    /\ \A n \in HistReturns :
        \E m \in HistPuts :
            /\ hist[n].result.item[1] = HistItem(m)
            /\ \A l \in HistPuts : l > m => KeyOf(HistItem(l)) # KeyOf(HistItem(m))
    /\ (hist # <<>> /\ HistReads = {})
        => Cardinality(ActiveItems(hist[1].queue))
             = Cardinality({KeyOf(HistItem(m)) : m \in HistPuts})

\* C30 at the resolution of the backend: the item returned by get or delete
\* is the item passed to the put that last stored its key, with the payload
\* of that put and with its timestamps as the backend keeps them, at full
\* precision on the volatile backend and cut to whole milliseconds on the
\* durable one; put items are separate active items when their keys differ
\* at that resolution, so that on the durable backend two put items whose
\* keys differ only below the millisecond are one active item, the one put
\* last.
C30_ReturnsWhatWasPutResolved ==
    /\ \A n \in HistReturns :
        \E m \in HistPuts :
            /\ hist[n].result.item[1] = Resolved(HistItem(m))
            /\ \A l \in HistPuts :
                l > m => KeyOf(Resolved(HistItem(l))) # KeyOf(Resolved(HistItem(m)))
    /\ (hist # <<>> /\ HistReads = {})
        => Cardinality(ActiveItems(hist[1].queue))
             = Cardinality({KeyOf(Resolved(HistItem(m))) : m \in HistPuts})

\* two items whose keys differ only below the millisecond were put with
\* different payloads, the first delete has returned an item and the second
\* has found the queue empty
C30_Witness ==
    /\ Len(hist) = 4
    /\ HistPuts = {1, 2}
    /\ HistItem(1).datetime.millis = HistItem(2).datetime.millis
    /\ HistItem(1).datetime.nanos # HistItem(2).datetime.nanos
    /\ HistItem(1).datetime_secondary = HistItem(2).datetime_secondary
    /\ HistItem(1).message # HistItem(2).message
    /\ hist[3].op = "delete" /\ hist[3].result = Ok(Some(Resolved(HistItem(2))))
    /\ hist[4].op = "delete" /\ hist[4].result = Ok(None)

-----------------------------------------------------------------------------
(* The rows of the tables, checked under SpecFront *)

\* the primary key of a row
RowKey(r) == <<r.datetime, r.datetime_secondary>>

\* the rows of a table that the step has changed or taken away
RowsTouched(t) == {r \in db[t] : r \notin db'[t]}

\* C31: on the durable backend no call takes a row away, so the number of
\* rows of a table never decreases under put, get and delete (a put either
\* adds a row or replaces the row of its key); a delete keeps every row and
\* every key, turns the active flag of exactly one row, the least active one
\* of its queue's table, from 1 to 0, or of no row when the table has no
\* active row, and touches no other table; a get changes nothing.
C31_DeleteKeepsRows ==
    [][backend = "sqlite" =>
        /\ \A t \in DOMAIN db :
            /\ Cardinality(db'[t]) >= Cardinality(db[t])
            /\ {RowKey(r) : r \in db[t]} \subseteq {RowKey(r) : r \in db'[t]}
        /\ \A q \in Names :
            (last' # last /\ last'.queue = q /\ q \in queues
             /\ last'.op = "delete") =>
               LET t == TableOf(sqls.delete, q)
                   first == SelectFirstValid(db[t])
               IN  /\ \A u \in DOMAIN db : u # t => db'[u] = db[u]
                   /\ Cardinality(db'[t]) = Cardinality(db[t])
                   /\ RowsTouched(t) = first
                   /\ \A r \in first : [r EXCEPT !.valid = 0] \in db'[t]
                   /\ Cardinality(RowsTouched(t))
                        = IF \E r \in db[t] : r.valid = 1 THEN 1 ELSE 0
        /\ \A q \in Names :
            (last' # last /\ last'.queue = q /\ last'.op = "get") => db' = db
      ]_vars

\* a delete has returned an item of a table of two rows: one row is inactive,
\* the other still active
C31_Witness ==
    /\ backend = "sqlite"
    /\ last.op = "delete"
    /\ last.result.tag = "Ok" /\ last.result.item # None
    /\ LET t == TableOf(sqls.delete, last.queue)
       IN  /\ Cardinality(db[t]) = 2
           /\ \E r, o \in db[t] :
                /\ r.valid = 0 /\ DecodeRow(r) = last.result.item[1]
                /\ o.valid = 1

-----------------------------------------------------------------------------
(* Logged calls: puts, gets and deletes on one queue in any order *)

\* most calls of a log
MaxLog == 4

\* the items of the logs: three keys, two of them in one millisecond, and two
\* payloads
LogItems == {i \in QueueItems : i.datetime_secondary = None}

LogPut(queue, item) ==
    /\ phase = "seq"
    /\ HistQueue(queue)
    /\ Len(hist) < MaxLog
    /\ LET r == put_item(queue, item)
       IN  /\ db' = r.db
           /\ mem' = r.mem
           /\ hist' = Append(hist, [op |-> "put", queue |-> queue,
                                    item |-> Some(item), result |-> r.result])
    /\ UNCHANGED <<setupVars, last, phase, threadVars>>

LogGet(queue) ==
    /\ phase = "seq"
    /\ HistQueue(queue)
    /\ Len(hist) < MaxLog
    /\ LET r == get_item(queue)
       IN  /\ db' = r.db
           /\ mem' = r.mem
           /\ hist' = Append(hist, [op |-> "get", queue |-> queue,
                                    item |-> None, result |-> r.result])
    /\ UNCHANGED <<setupVars, last, phase, threadVars>>

LogDelete(queue) ==
    /\ phase = "seq"
    /\ HistQueue(queue)
    /\ Len(hist) < MaxLog
    /\ LET r == delete_item(queue)
       IN  /\ db' = r.db
           /\ mem' = r.mem
           /\ hist' = Append(hist, [op |-> "delete", queue |-> queue,
                                    item |-> None, result |-> r.result])
    /\ UNCHANGED <<setupVars, last, phase, threadVars>>

LogPutStep == \E queue \in Names, item \in LogItems : LogPut(queue, item)
LogGetStep == \E queue \in Names : LogGet(queue)
LogDeleteStep == \E queue \in Names : LogDelete(queue)

LogNext == LogPutStep \/ LogGetStep \/ LogDeleteStep

SpecLog == Init /\ [][LogNext]_vars

-----------------------------------------------------------------------------
(* Claims checked under SpecLog *)

\* the deletes of the log that returned an item
LogTaken == {n \in 1..Len(hist) : /\ hist[n].op = "delete"
                                  /\ hist[n].result.tag = "Ok"
                                  /\ hist[n].result.item # None}

\* the n-th call is a put of a key that a delete before it has returned
PutOfRemoved(n) ==
    /\ hist[n].op = "put"
    /\ \E m \in LogTaken :
        m < n /\ KeyOf(hist[m].result.item[1]) = KeyOf(HistItem(n))

\* C32: a put whose key is the key of an item that a delete has returned
\* before makes the key active again with the payload of the put, on both
\* backends: right after the put the queue holds one active item of that
\* key, the item put (on the durable backend the row of the key is the one
\* row of that key and is active); a get that follows returns an item, the
\* item put or one of a smaller key, and leaves the item put active; a
\* delete that follows returns the item put and takes it out, or returns an
\* item of a smaller key and leaves the item put active.
C32_PutRevivesKey ==
    \A n \in 1..Len(hist) :
        PutOfRemoved(n) =>
            LET q == hist[n].queue
                i == HistItem(n)
            IN  /\ hist[n].result = Ok(None)
                /\ n = Len(hist) =>
                    /\ {x \in ActiveItems(q) : KeyOf(x) = KeyOf(i)} = {i}
                    /\ backend = "sqlite" =>
                        Cardinality({r \in db[TableOf(sqls.put, q)] :
                                        KeyOf(DecodeRow(r)) = KeyOf(i)}) = 1
                /\ (n + 1 = Len(hist) /\ hist[n + 1].op # "put") =>
                    /\ hist[n + 1].result.tag = "Ok"
                    /\ hist[n + 1].result.item # None
                    /\ LET x == hist[n + 1].result.item[1]
                       IN  /\ x = i \/ SpecKeyLess(x, i)
                           /\ i \in ActiveItems(q)
                                <=> ~(hist[n + 1].op = "delete" /\ x = i)

\* on the durable backend an item was put and deleted, its key was put again
\* with another payload, and the delete after that has returned the key with
\* the new payload
C32_Witness ==
    /\ backend = "sqlite"
    /\ Len(hist) = 4
    /\ hist[1].op = "put" /\ hist[2].op = "delete"
    /\ hist[3].op = "put" /\ hist[4].op = "delete"
    /\ hist[2].result = Ok(Some(HistItem(1)))
    /\ KeyOf(HistItem(3)) = KeyOf(HistItem(1))
    /\ HistItem(3).message # HistItem(1).message
    /\ hist[4].result = Ok(Some(HistItem(3)))

\* the puts of the log
LogPuts == {n \in 1..Len(hist) : hist[n].op = "put"}

\* the keys of the active items of the queue of the log
LogActiveKeys == {KeyOf(x) : x \in ActiveItems(hist[1].queue)}

\* by the log, key k is in the queue after the first n calls: a put among
\* them has stored it and no delete after that put has returned it
PutNotTaken(k, n, keys) ==
    \E p \in LogPuts :
        /\ p <= n
        /\ keys[p] = k
        /\ \A m \in LogTaken :
            (p < m /\ m <= n) => KeyOf(hist[m].result.item[1]) # k

\* the active keys are the keys put and not returned by a later delete, and
\* the active items are as many as the puts of a key that was not in the
\* queue at that moment less the deletes that returned an item; keys is the
\* key of each put of the log
Conserved(keys) ==
    hist # <<>> =>
        /\ LogActiveKeys
            = {k \in {keys[p] : p \in LogPuts} : PutNotTaken(k, Len(hist), keys)}
        /\ Cardinality(ActiveItems(hist[1].queue))
            = Cardinality({p \in LogPuts : ~PutNotTaken(keys[p], p - 1, keys)})
              - Cardinality(LogTaken)
        /\ Cardinality({p \in LogPuts : ~PutNotTaken(keys[p], p - 1, keys)})
            >= Cardinality(LogTaken)

-----------------------------------------------------------------------------
(* The dequeue handler with a failing UPDATE *)

\* handlers::delete_item, second statement, when execute returns Err (the
\* database file is read-only, another process holds its write lock, the
\* disk fails): updated is 0, no row changes, and the answer is 500 with the
\* JSON of the selected item as its body
HandlerUpdateFails(t) ==
    /\ pc[t] = "update"
    /\ ret' = [ret EXCEPT ![t] =
                 HttpInternalServerError(Some(HandlerItem(CHOOSE r \in sel[t] : TRUE)))]
    /\ pc' = [pc EXCEPT ![t] = "return"]
    /\ UNCHANGED <<setupVars, storeVars, last, hist, phase, call, sel, lock, pool,
                   atSpawn>>

HandlerUpdateFailsStep == \E t \in Threads : HandlerUpdateFails(t)

DequeueNext == HandlersNext \/ HandlerUpdateFailsStep

SpecDequeue == InitHandlers /\ [][DequeueNext]_vars

\* the response of the request served by t carries an item body
CarriesItem(t) == pc[t] \in {"return", "done"} /\ ret[t].item # None

\* the row the request served by t selected is inactive in the table
SelectedInactive(t) ==
    \A r \in sel[t] : [r EXCEPT !.valid = 0] \in db[HandlerTable(call[t].queue)]

\* C34: in the dequeue handler the select of the first active row and the
\* update that invalidates it run while the request holds the lock of the
\* connection; a response that carries an item body is for an item that is
\* no longer active in the queue, and no two requests are answered with the
\* same item.
C34_BodyOnlyForInvalidated ==
    backend = "appdb" =>
    /\ \A t \in Threads : pc[t] \in {"select", "update", "return"} => pool = {t}
    /\ \A t \in Threads : CarriesItem(t) => SelectedInactive(t)
    /\ \A t, u \in Threads :
          (t # u /\ CarriesItem(t) /\ CarriesItem(u)) => ret[t].item # ret[u].item
-----------------------------------------------------------------------------
(* The tables, indexes and triggers of the configured queues (under Spec) *)

\* SqliteStorage::new: the names of the index and of the trigger it creates
\* for a table, as SQLite resolves them
IndexOf(queue) ==
    sqlite_identifier(<<"i", "d", "x", "_">> \o sanitize_queue_name(queue)[1]
                         \o <<"_", "i", "s", "v", "a", "l", "i", "d">>)
TriggerOf(queue) ==
    sqlite_identifier(<<"u", "p", "d", "a", "t", "e", "_">> \o sanitize_queue_name(queue)[1]
                         \o <<"_", "t", "i", "m", "e", "s", "t", "a", "m", "p">>)

\* C35: on the durable backend two different configured queues never have
\* the same table, index or trigger: the allow-list has as many tables as
\* names.
C35_DistinctTables ==
    backend = "sqlite" =>
    /\ \A p \in queues, q \in queues :
          p # q => /\ TableOf(sqls.get, p) # TableOf(sqls.get, q)
                   /\ IndexOf(p) # IndexOf(q)
                   /\ TriggerOf(p) # TriggerOf(q)
    /\ Cardinality(DOMAIN db) = Cardinality(queues)
-----------------------------------------------------------------------------
(* Decoding at the ends of the range of timestamps: puts of the least and   *)
(* the greatest timestamp into the first queue of the configuration         *)

\* DateTime::<Utc>::MAX_UTC, the greatest timestamp chrono represents.  Its
\* timestamp_millis() is 8210266876799999, about i64::MAX / 1123, with a
\* rest below the millisecond; the model keeps that proportion.
MAX_UTC == DT((-I64_MIN) \div 1123, 1)

\* DateTime::from_timestamp_millis answers Some for the millisecond values
\* from that of MIN_UTC to that of MAX_UTC, and None for any other
Representable(m) == MIN_UTC.millis <= m /\ m <= MAX_UTC.millis

\* one of the two expect calls of the decoding closure of get_item and
\* delete_item panics on the row
DecodeExpectFails(row) ==
    \/ ~Representable(row.datetime)
    \/ row.datetime_secondary # I64_MIN /\ ~Representable(row.datetime_secondary)

DecodeTimes == {MIN_UTC, DT(0, 0), MAX_UTC}
DecodeSecondaryTimes == {None, Some(MIN_UTC), Some(DT(0, 1)), Some(MAX_UTC)}
DecodeItems ==
    {[datetime |-> d, datetime_secondary |-> s, message |-> ""] :
        d \in DecodeTimes, s \in DecodeSecondaryTimes}

DecodePutStep == \E item \in DecodeItems : Put(config[1], item)

DecodeNext == DecodePutStep \/ GetStep \/ DeleteStep

SpecDecode == Init /\ [][DecodeNext]_vars

\* C36: on the durable backend every row of every table has a primary value
\* that is the millisecond value of a representable timestamp and not the
\* sentinel, and a secondary value that is the sentinel or such a
\* millisecond value, so that neither expect of the decoding fails; an item
\* a get or delete returns is the decoding of a row of the table.
C36_RowsDecodable ==
    backend = "sqlite" =>
    /\ \A t \in DOMAIN db : \A r \in db[t] :
          /\ r.datetime # I64_MIN
          /\ Representable(r.datetime)
          /\ r.datetime_secondary = I64_MIN \/ Representable(r.datetime_secondary)
          /\ ~DecodeExpectFails(r)
    /\ (/\ last.op \in {"get", "delete"}
        /\ last.queue \in queues
        /\ last.result.tag = "Ok"
        /\ last.result.item # None)
       => \E r \in LastRows :
             ~DecodeExpectFails(r) /\ last.result.item[1] = DecodeRow(r)

\* a delete has returned an item put with the greatest timestamp as primary
\* and the least as secondary, while the table holds a row without secondary
C36_Witness ==
    /\ backend = "sqlite"
    /\ last.op = "delete"
    /\ last.result.tag = "Ok"
    /\ last.result.item # None
    /\ last.result.item[1].datetime = from_timestamp_millis(timestamp_millis(MAX_UTC))
    /\ last.result.item[1].datetime_secondary = Some(MIN_UTC)
    /\ \E r \in LastRows : r.datetime_secondary = I64_MIN
=============================================================================
